---------------------------- MODULE Spec2Model ----------------------------
(***************************************************************************)
(* Model of the IP-reputation aggregation engine of ssfun/ip-check:        *)
(*   - the provider registry           (src/src/api/providers.ts)          *)
(*   - the credential pool KeyManager  (src/unnamed/part_020)              *)
(*   - the HTTP fetcher                (src/src/api/index.ts)              *)
(*   - the concurrency limiter pLimit  (src/unnamed/part_017)              *)
(*   - the single-IP aggregator        (src/src/core/batchCheck.ts)        *)
(*   - the two batch streams           (src/unnamed/part_016,              *)
(*                                      src/src/routes/manualCheck.ts)     *)
(* Time is counted in units of 60 s, the greatest common divisor of the    *)
(* negative TTL (60 s), the failure decay (120 s), the key cooldown        *)
(* (300 s) and the default positive TTL (900 s).                           *)
(***************************************************************************)
EXTENDS Integers, Sequences, FiniteSets, TLC

VARIABLES
    env,        \* the worker's configuration: keys per provider, KV binding, CACHE_TTL_SECONDS
    now,        \* the wall clock, in units of 60 s
    kv,         \* the KV namespace IP_CACHE: ip -> stored bundle with its expiry
    managers,   \* keyManagerFactory.managers: provider -> KeyManager state
    calls,      \* the invocations of checkSingleIpWithCache, one record each
    stream,     \* the one batch stream request being served (or none)
    pool,       \* the use of one KeyManager by its callers (history)
    ai,         \* the AI analysis: LLM settings, the v1:ai:analysis:<ip> entries, its requests
    world,      \* what each provider answers to a request about each address, when that is fixed
    pure,       \* a call of a function without effects: its argument and what it returned
    flights     \* the requests in flight that hold a key of one KeyManager (history)

vars == <<env, now, kv, managers, calls, stream, pool, ai, world, pure, flights>>

(***************************************************************************)
(* Bounds of the model.                                                    *)
(***************************************************************************)
MaxCalls == 3
MaxTime == 3
MaxRows == 3
MaxPoolTime == 6
MaxRun == 4
MaxMarks == 2
MaxSuccess == 1
MaxText == 2
MaxAiReqs == 2
MaxExits == 3
MaxFlights == 2

CallIds == 1..MaxCalls
IPs == {"ip1", "ip2"}
\* the addresses of the rows of a batch stream
StreamIPs == IPs \cup {"ip3"}

(***************************************************************************)
(* JavaScript values that occur in provider payloads and arguments.        *)
(***************************************************************************)
Undefined == "undefined"
Null == "null"
Zero == "0"
AsnNumber == "64500"
AsnString == "'AS64500'"
NoDigits == "'n/a'"
EmptyString == "''"
NaNValue == "NaN"
Values == {Undefined, Null, Zero, AsnNumber, AsnString, NoDigits, EmptyString, NaNValue}

\* JavaScript truthiness, as used by `asn || ...` and `if (detectedAsn && ...)`
Truthy(v) == v \notin {Undefined, Null, Zero, EmptyString, NaNValue}

\* typeof v === 'string' || typeof v === 'number'
IsStringOrNumber(v) == v \in {Zero, AsnNumber, AsnString, NoDigits, EmptyString, NaNValue}

\* String(v).match(/\d+/) finds a run of digits
HasDigits(v) == v \in {Zero, AsnNumber, AsnString}

\* JSON.stringify of a scalar inside an object: undefined is dropped by the
\* caller, NaN becomes null, everything else is kept
JsonValue(v) == IF v = NaNValue THEN Null ELSE v

\* JSON.parse(JSON.stringify(obj)) of a flat object: keys holding undefined vanish
JsonObject(obj) ==
    LET keep == {k \in DOMAIN obj : obj[k] # Undefined}
    IN  [k \in keep |-> JsonValue(obj[k])]

EmptyObject == [k \in {} |-> Undefined]

(***************************************************************************)
(* Provider registry.                                                      *)
(***************************************************************************)
KeyManagedOrder == <<"ipqs", "abuseipdb", "ip2location", "ipinfo", "cloudflare_asn">>
NoKeyOrder == <<"ipguide">>
Providers == {"ipguide", "ipqs", "abuseipdb", "ip2location", "ipinfo", "cloudflare_asn"}
KeyedProviders == Providers \ {"ipguide"}

RequiresASN(p) == p = "cloudflare_asn"
HasCheckError(p) == p \in {"ipqs", "abuseipdb", "cloudflare_asn"}

\* env.<PROVIDER>_KEY: -1 is unset, 0 is a non-empty string holding no key
\* (such as ","), n > 0 is a comma-separated list of n keys
KeyUnset == -1
Enabled(e, p) == IF p = "ipguide" THEN TRUE ELSE e.keys[p] # KeyUnset

\* KeyManager._parseKeys: the number of keys of the pool
ParseKeys(setting) == IF setting < 0 THEN 0 ELSE setting

\* getApiConfigs: the three groups of enabled providers, in registry order
getApiConfigs(e) ==
    [ regularKeyApis   |-> SelectSeq(KeyManagedOrder, LAMBDA p : Enabled(e, p) /\ ~RequiresASN(p)),
      asnDependentApis |-> SelectSeq(KeyManagedOrder, LAMBDA p : Enabled(e, p) /\ RequiresASN(p)),
      noKeyApis        |-> SelectSeq(NoKeyOrder, LAMBDA p : Enabled(e, p)) ]


(***************************************************************************)
(* Credential pool: KeyManager.  Keys are numbered 1..n, NoKey is null.    *)
(* lastFailure = 0 is null (the clock starts at 1).                        *)
(***************************************************************************)
NoKey == 0
DEFAULT_COOLDOWN == 5
FAILURE_DECAY == 2
UnhealthyThreshold == 2
MaxAttempts == 3

FreshKeyState ==
    [isHealthy |-> TRUE, lastFailure |-> 0, failureCount |-> 0, successCount |-> 0]

\* KeyManager constructor
NewKeyManager(n) ==
    [n |-> n, currentIndex |-> 0, states |-> [k \in 1..n |-> FreshKeyState]]

\* KeyManager._cleanupExpiredCooldowns
cleanupExpiredCooldowns(m, t) ==
    [m EXCEPT !.states = [k \in 1..m.n |->
        LET s == m.states[k]
        IN  IF ~s.isHealthy /\ s.lastFailure # 0
            THEN IF t - s.lastFailure >= DEFAULT_COOLDOWN
                 THEN [s EXCEPT !.isHealthy = TRUE, !.failureCount = 0]
                 ELSE IF t - s.lastFailure > FAILURE_DECAY /\ s.failureCount < UnhealthyThreshold
                      THEN [s EXCEPT !.failureCount = 0]
                      ELSE s
            ELSE s]]

\* the while loop of KeyManager.getNextKey
RECURSIVE probeKeys(_, _, _)
probeKeys(m, t, attempts) ==
    IF attempts >= m.n
    THEN [key |-> NoKey, m |-> m]
    ELSE LET k  == m.currentIndex + 1
             s  == m.states[k]
             m1 == [m EXCEPT !.currentIndex = (m.currentIndex + 1) % m.n]
         IN  IF s.isHealthy
             THEN [key |-> k, m |-> m1]
             ELSE IF s.lastFailure # 0 /\ t - s.lastFailure >= DEFAULT_COOLDOWN
                  THEN [key |-> k,
                        m   |-> [m1 EXCEPT !.states[k] =
                                    [s EXCEPT !.isHealthy = TRUE, !.failureCount = 0]]]
                  ELSE probeKeys(m1, t, attempts + 1)

\* a getNextKey that starts every search at the first key
getNextKey_fromFirst(m, t) ==
    IF m.n = 0 THEN [key |-> NoKey, m |-> m]
    ELSE IF m.n = 1 THEN [key |-> 1, m |-> m]
    ELSE probeKeys(cleanupExpiredCooldowns([m EXCEPT !.currentIndex = 0], t), t, 0)

\* KeyManager.getNextKey: the key handed out and the manager afterwards
getNextKey(m, t) ==
    IF m.n = 0 THEN [key |-> NoKey, m |-> m]
    ELSE IF m.n = 1 THEN [key |-> 1, m |-> m]
    ELSE probeKeys(cleanupExpiredCooldowns(m, t), t, 0)

\* a markSuccess that only counts the success
markSuccess_countOnly(m, k) ==
    IF k \in 1..m.n
    THEN [m EXCEPT !.states[k].successCount = @ + 1]
    ELSE m

\* a markFailure whose count never decays
markFailure_noDecay(m, k, t) ==
    IF k \in 1..m.n
    THEN LET s == m.states[k]
         IN  [m EXCEPT !.states[k] =
                 [s EXCEPT !.failureCount = s.failureCount + 1,
                           !.lastFailure = t,
                           !.isHealthy = IF s.failureCount + 1 >= UnhealthyThreshold
                                         THEN FALSE ELSE s.isHealthy]]
    ELSE m

\* KeyManager.markSuccess
markSuccess(m, k) ==
    IF k \in 1..m.n
    THEN LET s  == m.states[k]
             s1 == [s EXCEPT !.successCount = s.successCount + 1]
         IN  [m EXCEPT !.states[k] =
                 IF s.failureCount > 0
                 THEN [s1 EXCEPT !.failureCount = 0, !.isHealthy = TRUE]
                 ELSE s1]
    ELSE m

\* KeyManager.markFailure
markFailure(m, k, t) ==
    IF k \in 1..m.n
    THEN LET s  == m.states[k]
             fc == IF s.lastFailure # 0 /\ t - s.lastFailure > FAILURE_DECAY
                   THEN 0 ELSE s.failureCount
         IN  [m EXCEPT !.states[k] =
                 [s EXCEPT !.failureCount = fc + 1,
                           !.lastFailure = t,
                           !.isHealthy = IF fc + 1 >= UnhealthyThreshold THEN FALSE ELSE s.isHealthy]]
    ELSE m

\* KeyManager.isKeyRelatedError: the status is 401, 403 or 429, or the text
\* of the response (or of the Error's message) holds one of the key phrases
isKeyRelatedError(status, hasKeyPhrase) ==
    status \in {401, 403, 429} \/ hasKeyPhrase

(***************************************************************************)
(* What a provider answers to one outbound request.                        *)
(*   status 0    no response: the request timed out (AbortSignal.timeout)  *)
(*   body        "data"       a well-formed payload                        *)
(*               "error"      a payload the provider flags as failed       *)
(*               "quota"      the same, its text holding a key phrase      *)
(*               "malformed"  not JSON                                     *)
(*               "null"       the JSON value null                          *)
(*   asn         the ASN field of a "data" payload                         *)
(***************************************************************************)
Response(status, body, asn) == [status |-> status, body |-> body, asn |-> asn]
Timeout == Response(0, "none", Undefined)
Ok(asn) == Response(200, "data", asn)
LogicalError == Response(200, "error", Undefined)
Malformed == Response(200, "malformed", Undefined)
Http(status) == Response(status, "error", Undefined)
PayloadAsns == {Undefined, Zero, AsnNumber}

\* one response of every kind the fetcher tells apart
Responses ==
    {Timeout, LogicalError, Malformed, Http(404), Http(429), Http(500)}
    \cup {Ok(a) : a \in PayloadAsns}

\* the two outcomes a cache bundle tells apart
TwoResponses == {Ok(AsnNumber), Timeout}

\* Error messages: what the Error was, the HTTP status it quotes and whether
\* its text holds a key phrase
Msg(kind, status, phrase) == [kind |-> kind, status |-> status, phrase |-> phrase]
NoMsg == Msg("none", 0, FALSE)

\* api.transform(rawData): the flat normalized map of a parsed payload
transform(p, r) ==
    LET a == IF r.body = "data" THEN r.asn ELSE Undefined
        present == IF r.body = "data" THEN AsnNumber ELSE Undefined
    IN  CASE p = "ipguide"        -> [ipguide_asn |-> a]
          [] p = "ipqs"           -> [ASN |-> a, asn |-> a]
          [] p = "abuseipdb"      -> [abuseScore |-> IF r.body = "data" THEN Zero ELSE Null]
          [] p = "ip2location"    -> [ip2location_asn |-> a]
          [] p = "ipinfo"         -> [ipinfo_asn |-> IF r.body = "data" THEN AsnString ELSE Null]
          [] p = "cloudflare_asn" -> [cf_asn_bot_pct |-> IF a = Undefined THEN NaNValue ELSE Zero]

\* ApiResult
SuccessResult(p, data) == [source |-> p, status |-> "success", data |-> data, error |-> NoMsg]
ErrorResult(p, msg) == [source |-> p, status |-> "error", data |-> EmptyObject, error |-> msg]


(***************************************************************************)
(* HTTP fetcher.  A provider call is a task: it is queued in the limiter,  *)
(* has one request in flight, or has settled with an ApiResult.            *)
(***************************************************************************)
NoResult == [source |-> "none", status |-> "none", data |-> EmptyObject, error |-> NoMsg]
IdleTask ==
    [st |-> "none", attempt |-> 0, key |-> NoKey, lastError |-> NoMsg,
     released |-> FALSE, result |-> NoResult]

\* what an async function that throws settles its promise with
Thrown == [source |-> "none", status |-> "thrown", data |-> EmptyObject, error |-> NoMsg]

InFlight(task, key, attempt, lastError) ==
    [task EXCEPT !.st = "inflight", !.key = key, !.attempt = attempt, !.lastError = lastError]
Fulfilled(task, result) ==
    [task EXCEPT !.st = "fulfilled", !.result = result]
\* the promise of a provider call settles: fulfilled with the ApiResult the
\* function returned, rejected when it threw
SettledWith(task, outcome) ==
    IF outcome.status = "thrown" THEN [task EXCEPT !.st = "rejected"]
    ELSE Fulfilled(task, outcome)

\* fetchApiData with its catch block taken away: a failed fetch throws
fetchApiData_uncaught(p, r) ==
    IF r.status = 200 /\ r.body \in {"data", "error", "quota"}
    THEN SuccessResult(p, transform(p, r))
    ELSE Thrown

\* fetchApiData: what the call resolves to once the response r has arrived
fetchApiData(p, r) ==
    IF r.status = 0 THEN ErrorResult(p, Msg("timeout", 0, FALSE))
    ELSE IF r.status # 200 THEN ErrorResult(p, Msg("http", r.status, r.body = "quota"))
    ELSE IF r.body = "malformed" THEN ErrorResult(p, Msg("syntax_error", 0, FALSE))
    ELSE IF r.body = "null" THEN ErrorResult(p, Msg("type_error", 0, FALSE))
    ELSE SuccessResult(p, transform(p, r))

\* api.checkError(rawData) of a parsed, non-null payload
checkError(p, r) == HasCheckError(p) /\ r.body \in {"error", "quota"}

\* api.getErrorMessage(rawData): only ipqs and abuseipdb quote the payload
getErrorMessage(p, r) ==
    Msg("api_error", 0, p # "cloudflare_asn" /\ r.body = "quota")

\* a loop that goes on to the next key after every failure
attemptOutcome_retryAll(m, p, r) ==
    IF r.status = 200 /\ r.body = "data"
    THEN [class |-> "success", msg |-> NoMsg]
    ELSE [class |-> "retry",
          msg |-> IF r.status = 0 THEN Msg("timeout", 0, FALSE)
                  ELSE IF r.status # 200 THEN Msg("http", r.status, r.body = "quota")
                  ELSE IF r.body = "malformed" THEN Msg("syntax_error", 0, FALSE)
                  ELSE Msg("api_error", 0, r.body = "quota")]

\* fetchApiDataWithKeyManager, the body of one attempt after its response r:
\* "success", "retry" (markFailure and continue) or "fatal" (return the error)
attemptOutcome(m, p, r) ==
    IF r.status = 0
    THEN \* fetch threw; the catch block sees status 0 and a message without key phrase
         [class |-> "fatal", msg |-> Msg("timeout", 0, FALSE)]
    ELSE IF r.status # 200
    THEN LET msg == Msg("http", r.status, r.body = "quota")
         IN  IF isKeyRelatedError(r.status, FALSE) \/ r.status >= 500
             THEN [class |-> "retry", msg |-> msg]
             ELSE \* thrown into the catch block
                  IF isKeyRelatedError(r.status, msg.phrase) \/ r.status >= 500
                  THEN [class |-> "retry", msg |-> msg]
                  ELSE [class |-> "fatal", msg |-> msg]
    ELSE IF r.body = "malformed"
    THEN [class |-> "fatal", msg |-> Msg("syntax_error", 0, FALSE)]
    ELSE IF r.body = "null"
    THEN [class |-> "fatal", msg |-> Msg("type_error", 0, FALSE)]
    ELSE IF checkError(p, r)
    THEN LET msg == getErrorMessage(p, r)
         IN  IF isKeyRelatedError(0, r.body = "quota")
             THEN [class |-> "retry", msg |-> msg]
             ELSE IF isKeyRelatedError(0, msg.phrase)
                  THEN [class |-> "retry", msg |-> msg]
                  ELSE [class |-> "fatal", msg |-> msg]
    ELSE [class |-> "success", msg |-> NoMsg]

Min(a, b) == IF a < b THEN a ELSE b

\* fetchApiDataWithKeyManager after its for loop: the message of the last
\* error, "All API keys exhausted" standing in for a missing one
exhausted(p, lastError) ==
    ErrorResult(p, IF lastError = NoMsg THEN Msg("all_keys_exhausted", 0, FALSE)
                   ELSE lastError)

\* fetchApiDataWithKeyManager from the head of its for loop, at attempt
\* number `attempt`: the manager afterwards, the task, and the number of
\* requests issued (0 or 1)
\* the body of the for loop up to its await of fetch, g being what
\* getNextKey returned
attemptWith(g, p, task, attempt, lastError, asn) ==
    IF g.key = NoKey
    THEN [m |-> g.m,
          task |-> Fulfilled(task, exhausted(p, Msg("no_available_key", 0, FALSE))),
          issued |-> 0]
    ELSE IF RequiresASN(p) /\ ~HasDigits(asn)
         THEN \* buildUrl throws "Invalid ASN format" inside the try block
              [m |-> g.m,
               task |-> Fulfilled(task, ErrorResult(p, Msg("invalid_asn", 0, FALSE))),
               issued |-> 0]
         ELSE [m |-> g.m, task |-> InFlight(task, g.key, attempt, lastError), issued |-> 1]

\* a loop that makes one attempt more
keyLoop_oneMore(m, p, task, attempt, lastError, asn, t) ==
    IF attempt >= Min(m.n, MaxAttempts) + 1
    THEN [m |-> m, task |-> Fulfilled(task, exhausted(p, lastError)), issued |-> 0]
    ELSE attemptWith(getNextKey(m, t), p, task, attempt, lastError, asn)

keyLoop(m, p, task, attempt, lastError, asn, t) ==
    IF attempt >= Min(m.n, MaxAttempts)
    THEN [m |-> m, task |-> Fulfilled(task, exhausted(p, lastError)), issued |-> 0]
    ELSE attemptWith(getNextKey(m, t), p, task, attempt, lastError, asn)

\* fetchApiDataWithKeyManager from its first line
fetchApiDataWithKeyManager(m, p, task, asn, t) ==
    IF m.n = 0
    THEN [m |-> m,
          task |-> Fulfilled(task, ErrorResult(p, Msg("no_keys_configured", 0, FALSE))),
          issued |-> 0]
    ELSE keyLoop(m, p, task, 0, NoMsg, asn, t)

\* a fetcher that keeps the payload only of answers obtained with the first key
resumeAfter_firstKeyOnly(o, m, p, task, r, asn, t) ==
    CASE o.class = "success" ->
            [m |-> markSuccess(m, task.key),
             task |-> Fulfilled(task, SuccessResult(p, IF task.key = 1 THEN transform(p, r)
                                                       ELSE EmptyObject)),
             issued |-> 0]
      [] o.class = "retry" ->
            keyLoop(markFailure(m, task.key, t), p, task, task.attempt + 1, o.msg, asn, t)
      [] o.class = "fatal" ->
            [m |-> m, task |-> Fulfilled(task, ErrorResult(p, o.msg)), issued |-> 0]

\* a fetcher that records a retryable failure twice
resumeAfter_markTwice(o, m, p, task, r, asn, t) ==
    CASE o.class = "success" ->
            [m |-> markSuccess(m, task.key),
             task |-> Fulfilled(task, SuccessResult(p, transform(p, r))),
             issued |-> 0]
      [] o.class = "retry" ->
            keyLoop(markFailure(markFailure(m, task.key, t), task.key, t), p, task,
                    task.attempt + 1, o.msg, asn, t)
      [] o.class = "fatal" ->
            [m |-> m, task |-> Fulfilled(task, ErrorResult(p, o.msg)), issued |-> 0]

\* fetchApiDataWithKeyManager resumed by the response r to the request in flight
resumeAfter(o, m, p, task, r, asn, t) ==
    CASE o.class = "success" ->
            [m |-> markSuccess(m, task.key),
             task |-> Fulfilled(task, SuccessResult(p, transform(p, r))),
             issued |-> 0]
      [] o.class = "retry" ->
            keyLoop(markFailure(m, task.key, t), p, task, task.attempt + 1, o.msg, asn, t)
      [] o.class = "fatal" ->
            [m |-> m, task |-> Fulfilled(task, ErrorResult(p, o.msg)), issued |-> 0]

resumeWithResponse(m, p, task, r, asn, t) ==
    resumeAfter(attemptOutcome(m, p, r), m, p, task, r, asn, t)


(***************************************************************************)
(* Cache: the KV namespace, an opaque TTL key/value store.                 *)
(***************************************************************************)
CACHE_VERSION == "v1"
NEGATIVE_CACHE_TTL_SECONDS == 60
\* the clock counts minutes: one tick is the lifetime of a negative bundle
SecondsPerUnit == NEGATIVE_CACHE_TTL_SECONDS
DefaultCacheTtlSeconds == 900
NotANumber == -1

\* getMergedIpCacheKey
getMergedIpCacheKey(ip) == <<CACHE_VERSION, "merged", ip>>
CacheKeys == {getMergedIpCacheKey(ip) : ip \in StreamIPs}

\* getCacheTTL, over parseInt(env.CACHE_TTL_SECONDS) (NotANumber when unset)
getCacheTTL(e) ==
    IF e.cacheTtlSeconds = NotANumber \/ e.cacheTtlSeconds < 60
    THEN DefaultCacheTtlSeconds
    ELSE e.cacheTtlSeconds

\* CachedMergedIpData
Bundle(merged, successful, errors, asn, negative, t) ==
    [merged |-> merged, successful |-> successful, errors |-> errors,
     asn |-> asn, isNegativeCache |-> negative, cachedAt |-> t]
NoBundle == Bundle(EmptyObject, <<>>, <<>>, Undefined, FALSE, 0)

\* JSON.parse(JSON.stringify(result)) of an ApiResult
JsonResult(r) == [r EXCEPT !.data = JsonObject(r.data)]
JsonResults(rs) == [i \in 1..Len(rs) |-> JsonResult(rs[i])]

\* what kv.get(key, 'json') returns for what kv.put(key, JSON.stringify(b)) stored
JsonBundle(b) ==
    [b EXCEPT !.merged = JsonObject(b.merged),
              !.successful = JsonResults(b.successful),
              !.errors = JsonResults(b.errors),
              !.asn = JsonValue(b.asn)]

\* a KV entry; writer is the call whose write stored it (history only)
EmptyEntry == [present |-> FALSE, value |-> NoBundle, expires |-> 0, ttl |-> 0, writer |-> 0]

\* kv.get: an entry is gone once its expirationTtl has passed
kvGet(store, key, t) ==
    IF store[key].present /\ t < store[key].expires
    THEN [found |-> TRUE, value |-> store[key].value]
    ELSE [found |-> FALSE, value |-> NoBundle]

\* kv.put(key, JSON.stringify(data), { expirationTtl: ttlSeconds })
kvPut(store, key, b, ttlSeconds, t) ==
    [store EXCEPT ![key] = [present |-> TRUE, value |-> JsonBundle(b),
                            expires |-> t + (ttlSeconds \div SecondsPerUnit),
                            ttl |-> ttlSeconds, writer |-> 0]]

(***************************************************************************)
(* mergeResults: shallow overlay of the data maps, later results winning.  *)
(***************************************************************************)
Overlay(a, b) ==
    [k \in (DOMAIN a) \cup (DOMAIN b) |-> IF k \in DOMAIN b THEN b[k] ELSE a[k]]

RECURSIVE mergeFrom(_, _, _)
mergeFrom(results, i, merged) ==
    IF i > Len(results) THEN merged
    ELSE mergeFrom(results, i + 1, Overlay(merged, results[i].data))

mergeResults(results) == mergeFrom(results, 1, EmptyObject)

Field(obj, k) == IF k \in DOMAIN obj THEN obj[k] ELSE Undefined

\* the ASN candidate without the wave-1 fields
detectAsn_argumentOnly(asnArg, mergedPhase1) == asnArg

\* the ASN candidate: the explicit argument, then merged asn, ASN, as
detectAsn(asnArg, mergedPhase1) ==
    LET pick(k) == IF IsStringOrNumber(Field(mergedPhase1, k))
                   THEN Field(mergedPhase1, k) ELSE Undefined
    IN  IF Truthy(asnArg) THEN asnArg
        ELSE IF Truthy(pick("asn")) THEN pick("asn")
        ELSE IF Truthy(pick("ASN")) THEN pick("ASN")
        ELSE pick("as")

(***************************************************************************)
(* pLimit and the single-IP aggregator checkSingleIpWithCache.  A world w  *)
(* is the call record w.c together with the key managers w.ms.             *)
(***************************************************************************)
API_CONCURRENCY_LIMIT == 4

NoApiCheckResult ==
    [ip |-> "none", asn |-> Undefined, successful |-> <<>>, errors |-> <<>>,
     merged |-> EmptyObject, partiallyFromCache |-> FALSE,
     cachedApiCount |-> 0, totalApiCount |-> 0]
NoMeta ==
    [sources |-> <<>>, apiErrors |-> <<>>, cached |-> FALSE,
     cachedApiCount |-> 0, totalApiCount |-> 0]

IdleCall ==
    [pc |-> "idle", ip |-> "none", asn |-> Undefined, route |-> "none",
     read |-> "none", put |-> "none",
     tasks |-> [p \in Providers |-> IdleTask],
     activeCount |-> 0, queue |-> <<>>,
     detectedAsn |-> Undefined, requests |-> 0,
     pending |-> NoBundle, ttl |-> 0,
     outcome |-> "none", result |-> NoApiCheckResult, meta |-> NoMeta,
     after |-> {}, startedAt |-> 0, servedBy |-> 0, expires |-> 0]

\* the provider function handed to the limiter is invoked
\* the world after the step s of the call of provider p
withTask(w, p, s) ==
    [w EXCEPT !.ms[p] = s.m, !.c.tasks[p] = s.task, !.c.requests = @ + s.issued]

startTask(w, p, t) ==
    IF p \in KeyedProviders
    THEN withTask(w, p, fetchApiDataWithKeyManager(w.ms[p], p, w.c.tasks[p],
                                                   w.c.detectedAsn, t))
    ELSE [w EXCEPT !.c.tasks[p] = InFlight(@, NoKey, 0, NoMsg), !.c.requests = @ + 1]

\* pLimit: run
run(w, p, t) == startTask([w EXCEPT !.c.activeCount = @ + 1], p, t)

\* a limiter that never queues
limit_unbounded(w, p, t) == run(w, p, t)

\* pLimit: the returned limiter function
limit(w, p, t) ==
    IF w.c.activeCount < API_CONCURRENCY_LIMIT
    THEN run(w, p, t)
    ELSE [w EXCEPT !.c.queue = Append(@, p), !.c.tasks[p].st = "queued"]

\* pLimit: next, called from the finally block of run
next(w, t) ==
    IF Len(w.c.queue) > 0
    THEN run([w EXCEPT !.c.activeCount = @ - 1, !.c.queue = Tail(@)], Head(w.c.queue), t)
    ELSE [w EXCEPT !.c.activeCount = @ - 1]

Wave1Apis(e) == getApiConfigs(e).noKeyApis \o getApiConfigs(e).regularKeyApis
Wave2Apis(e) == getApiConfigs(e).asnDependentApis
Range(seq) == {seq[i] : i \in 1..Len(seq)}

\* the finally blocks of the limited tasks that have settled run, each
\* releasing its slot and starting the task at the head of the queue
RECURSIVE releaseSettled(_, _, _)
releaseSettled(w, e, t) ==
    LET ready == {p \in Range(Wave1Apis(e)) :
                     w.c.tasks[p].st \in {"fulfilled", "rejected"} /\ ~w.c.tasks[p].released}
    IN  IF ready = {} THEN w
        ELSE LET p == CHOOSE q \in ready : TRUE
             IN  releaseSettled(next([w EXCEPT !.c.tasks[p].released = TRUE], t), e, t)

\* the two for loops that push limit(...) for every wave-1 provider
RECURSIVE limitAll(_, _, _, _)
limitAll(w, apis, i, t) ==
    IF i > Len(apis) THEN w
    ELSE limitAll(limit(w, apis[i], t), apis, i + 1, t)

\* the for loop that calls fetchApiDataWithKeyManager for every wave-2 provider
RECURSIVE startAll(_, _, _, _)
startAll(w, apis, i, t) ==
    IF i > Len(apis) THEN w
    ELSE startAll(startTask(w, apis[i], t), apis, i + 1, t)

\* the loops over Promise.allSettled results: fulfilled values in input order
Settled(tasks, apis) == \A i \in 1..Len(apis) : tasks[apis[i]].st \in {"fulfilled", "rejected"}
ValuesOf(tasks, apis) ==
    LET ful == SelectSeq(apis, LAMBDA p : tasks[p].st = "fulfilled")
    IN  [i \in 1..Len(ful) |-> tasks[ful[i]].result]
\* the classification loop without its test of r.value.status
SuccessfulOf_unfiltered(tasks, apis) == ValuesOf(tasks, apis)
SuccessfulOf(tasks, apis) == SelectSeq(ValuesOf(tasks, apis), LAMBDA r : r.status = "success")
ErrorsOf(tasks, apis) == SelectSeq(ValuesOf(tasks, apis), LAMBDA r : r.status # "success")


\* buildDetailResult: the meta block of the derived record; a record built by
\* mergeExitData carries the edge snapshot cfData, one built by
\* buildIpCheckResult does not
buildDetailMeta(res, hasCfData) ==
    LET provided == [i \in 1..Len(res.successful) |-> res.successful[i].source]
    IN  [sources |-> IF hasCfData THEN <<"cloudflare_native">> \o provided ELSE provided,
         apiErrors |-> [i \in 1..Len(res.errors) |->
                           [source |-> res.errors[i].source, error |-> res.errors[i].error]],
         cached |-> res.partiallyFromCache,
         cachedApiCount |-> res.cachedApiCount,
         totalApiCount |-> res.totalApiCount]

HasCfData(route) == route = "exit"

\* checkSingleIpWithCache returns res to its caller, which derives the record
returned(c, res, putOutcome) ==
    [c EXCEPT !.pc = "done", !.outcome = "returned", !.put = putOutcome,
              !.result = res, !.meta = buildDetailMeta(res, HasCfData(c.route))]

\* an exception leaves checkSingleIpWithCache
thrown(c) == [c EXCEPT !.pc = "done", !.outcome = "thrown"]

\* one lifetime for every bundle
bundleTtl_uniform(e, positive) == getCacheTTL(e)

\* the expirationTtl of a bundle: the configured TTL, or 60 s when no
\* provider succeeded
bundleTtl(e, positive) ==
    IF positive THEN getCacheTTL(e) ELSE NEGATIVE_CACHE_TTL_SECONDS

\* checkSingleIpWithCache, lines 244-293: merge, choose what to cache, then
\* either wait for the KV write or return
\* a finalize that writes the failures without the negative flag
finalize_noFlag(w, e, t) ==
    LET successful == SuccessfulOf(w.c.tasks, Wave1Apis(e)) \o SuccessfulOf(w.c.tasks, Wave2Apis(e))
        errors     == ErrorsOf(w.c.tasks, Wave1Apis(e)) \o ErrorsOf(w.c.tasks, Wave2Apis(e))
        merged     == mergeResults(successful)
        res        == [ip |-> w.c.ip, asn |-> w.c.detectedAsn,
                       successful |-> successful, errors |-> errors, merged |-> merged,
                       partiallyFromCache |-> FALSE, cachedApiCount |-> 0,
                       totalApiCount |-> Len(successful) + Len(errors)]
        positive   == Len(successful) > 0
        negative   == ~positive /\ Len(errors) > 0
        bundle     == IF positive
                      THEN Bundle(merged, successful, errors, w.c.detectedAsn, FALSE, t)
                      ELSE Bundle(EmptyObject, <<>>, errors, w.c.detectedAsn, FALSE, t)
        ttl        == bundleTtl(e, positive)
    IN  IF (positive \/ negative) /\ e.kvBound
        THEN [w EXCEPT !.c.pc = "writing", !.c.pending = bundle, !.c.ttl = ttl, !.c.result = res]
        ELSE [w EXCEPT !.c = returned(w.c, res, IF e.kvBound THEN "nothing" ELSE "nokv")]

finalize(w, e, t) ==
    LET successful == SuccessfulOf(w.c.tasks, Wave1Apis(e)) \o SuccessfulOf(w.c.tasks, Wave2Apis(e))
        errors     == ErrorsOf(w.c.tasks, Wave1Apis(e)) \o ErrorsOf(w.c.tasks, Wave2Apis(e))
        merged     == mergeResults(successful)
        res        == [ip |-> w.c.ip, asn |-> w.c.detectedAsn,
                       successful |-> successful, errors |-> errors, merged |-> merged,
                       partiallyFromCache |-> FALSE, cachedApiCount |-> 0,
                       totalApiCount |-> Len(successful) + Len(errors)]
        positive   == Len(successful) > 0
        negative   == ~positive /\ Len(errors) > 0
        bundle     == IF positive
                      THEN Bundle(merged, successful, errors, w.c.detectedAsn, FALSE, t)
                      ELSE Bundle(EmptyObject, <<>>, errors, w.c.detectedAsn, TRUE, t)
        ttl        == bundleTtl(e, positive)
    IN  IF (positive \/ negative) /\ e.kvBound
        THEN [w EXCEPT !.c.pc = "writing", !.c.pending = bundle, !.c.ttl = ttl, !.c.result = res]
        ELSE [w EXCEPT !.c = returned(w.c, res, IF e.kvBound THEN "nothing" ELSE "nokv")]

\* checkSingleIpWithCache, lines 206-242: after wave 1 has settled
\* checkSingleIpWithCache at an await of Promise.allSettled over apis
awaitSettled(w, apis, e, t) ==
    IF Settled(w.c.tasks, apis) THEN finalize(w, e, t) ELSE w

afterWave1(w, e, t) ==
    LET s1       == SuccessfulOf(w.c.tasks, Wave1Apis(e))
        detected == detectAsn(w.c.asn, mergeResults(s1))
    IN  IF Truthy(detected) /\ Len(Wave2Apis(e)) > 0
        THEN awaitSettled(startAll([w EXCEPT !.c.detectedAsn = detected, !.c.pc = "wave2"],
                                   Wave2Apis(e), 1, t),
                          Wave2Apis(e), e, t)
        ELSE finalize([w EXCEPT !.c.detectedAsn = detected], e, t)

\* everything that runs, without waiting for I/O, after a task has settled
\* checkSingleIpWithCache at its await of the wave-1 promises
\* an await that goes on as soon as one request of the first wave has settled
awaitWave1_anySettled(w, e, t) ==
    IF \E p \in Range(Wave1Apis(e)) : w.c.tasks[p].st \in {"fulfilled", "rejected"}
    THEN afterWave1(w, e, t) ELSE w

awaitWave1(w, e, t) ==
    IF Settled(w.c.tasks, Wave1Apis(e)) THEN afterWave1(w, e, t) ELSE w

advance(w, e, t) ==
    IF w.c.pc = "wave1" THEN awaitWave1(releaseSettled(w, e, t), e, t)
    ELSE IF w.c.pc = "wave2" THEN awaitSettled(w, Wave2Apis(e), e, t)
    ELSE w

\* checkSingleIpWithCache, lines 182-204: the fan-out of a cache miss
fanOut(w, e, t) ==
    advance(limitAll([w EXCEPT !.c.pc = "wave1"], Wave1Apis(e), 1, t), e, t)

\* a cache hit that hands back the successes only
cacheHit_successesOnly(c, cached) ==
    returned(c,
             [ip |-> c.ip, asn |-> cached.asn,
              successful |-> cached.successful, errors |-> <<>>,
              merged |-> cached.merged, partiallyFromCache |-> TRUE,
              cachedApiCount |-> Len(cached.successful),
              totalApiCount |-> Len(cached.successful)],
             "none")

\* checkSingleIpWithCache, lines 166-180: the result of a cache hit
cacheHit(c, cached) ==
    returned(c,
             [ip |-> c.ip, asn |-> cached.asn,
              successful |-> cached.successful, errors |-> cached.errors,
              merged |-> cached.merged, partiallyFromCache |-> TRUE,
              cachedApiCount |-> Len(cached.successful),
              totalApiCount |-> Len(cached.successful) + Len(cached.errors)],
             "none")

\* getCachedMergedIpData with its try/catch taken away: a failed read throws
getCachedMergedIpData_uncaught(e, store, ip, t, getThrows) ==
    IF ~e.kvBound THEN [how |-> "nokv", value |-> NoBundle]
    ELSE IF getThrows THEN [how |-> "uncaught", value |-> NoBundle]
    ELSE LET g == kvGet(store, getMergedIpCacheKey(ip), t)
         IN  IF g.found THEN [how |-> "hit", value |-> g.value]
             ELSE [how |-> "miss", value |-> NoBundle]

\* getCachedMergedIpData: "nokv", "threw" (caught, null returned), "hit" or
\* "miss", and the bundle
getCachedMergedIpData(e, store, ip, t, getThrows) ==
    IF ~e.kvBound THEN [how |-> "nokv", value |-> NoBundle]
    ELSE IF getThrows THEN [how |-> "threw", value |-> NoBundle]
    ELSE LET g == kvGet(store, getMergedIpCacheKey(ip), t)
         IN  IF g.found THEN [how |-> "hit", value |-> g.value]
             ELSE [how |-> "miss", value |-> NoBundle]

\* setCachedMergedIpData: the store afterwards
setCachedMergedIpData(e, store, ip, data, ttlSeconds, t, putThrows) ==
    IF ~e.kvBound \/ putThrows THEN store
    ELSE kvPut(store, getMergedIpCacheKey(ip), data, ttlSeconds, t)

\* checkSingleIpWithCache from its first line up to its first wait for a
\* provider or for the KV write
afterRead(c, g, e, ms, t) ==
    IF g.how = "uncaught"
    THEN [c |-> thrown([c EXCEPT !.read = g.how]), ms |-> ms]
    ELSE IF g.how = "hit"
    THEN [c |-> cacheHit([c EXCEPT !.read = g.how], g.value), ms |-> ms]
    ELSE fanOut([c |-> [c EXCEPT !.read = g.how], ms |-> ms], e, t)

checkSingleIpWithCache(c, ip, asn, route, done, e, store, ms, t, getThrows) ==
    afterRead([c EXCEPT !.ip = ip, !.asn = asn, !.route = route, !.after = done,
                        !.startedAt = t],
              getCachedMergedIpData(e, store, ip, t, getThrows), e, ms, t)

\* a call of checkSingleIpWithCache begins in record c; servedBy and expires
\* note the entry a hit was served from
servedFrom(w, entry) ==
    IF w.c.read = "hit"
    THEN [w EXCEPT !.c.servedBy = entry.writer, !.c.expires = entry.expires]
    ELSE w

beginCall(c, ip, asn, route, done, e, store, ms, t, getThrows) ==
    servedFrom(checkSingleIpWithCache(c, ip, asn, route, done, e, store, ms, t, getThrows),
               store[getMergedIpCacheKey(ip)])

(***************************************************************************)
(* Batch streams.  The handler of a stream waits for an aggregation        *)
(* ("waiting") or for stream.writeSSE ("writing").  The aggregation of     *)
(* pending item i, or of input row i, is the call in record i.             *)
(***************************************************************************)
\* order, connected, delivered and cut are history: the records in the order
\* in which their aggregations settled, whether the consumer is still
\* connected, the number of events handed to writeSSE before it went away and
\* the records whose aggregation was in flight at that moment
NoStream ==
    [pc |-> "none", route |-> "none", rows |-> <<>>, total |-> 0, completed |-> 0,
     pendingItems |-> <<>>, index |-> 0, events |-> <<>>,
     order |-> <<>>, connected |-> TRUE, delivered |-> 0, cut |-> {}]

Event(type, code, ip, completed, total) ==
    [type |-> type, code |-> code, ip |-> ip,
     progress |-> [completed |-> completed, total |-> total]]

\* processExitsStream: the Map uniqueExits, keys in insertion order
RECURSIVE uniqueExits(_, _, _)
uniqueExits(rows, i, acc) ==
    IF i > Len(rows) THEN acc
    ELSE IF rows[i] \in Range(acc) THEN uniqueExits(rows, i + 1, acc)
    ELSE uniqueExits(rows, i + 1, Append(acc, rows[i]))

\* the calls that have returned, and the call b placed in record i
DoneIn(cs) == {d \in DOMAIN cs : cs[d].pc = "done"}
inRecord(cs, i, b) == [cs |-> [cs EXCEPT ![i] = b.c], ms |-> b.ms]

\* processExitsStream: the map that builds pendingItems starts the async
\* function of every unique exit, one after the other
RECURSIVE startPending(_, _, _, _, _, _)
startPending(w, ips, i, e, store, t) ==
    IF i > Len(ips) THEN w
    ELSE startPending(
            inRecord(w.cs, i, beginCall(w.cs[i], ips[i], Undefined, "exit", DoneIn(w.cs),
                                        e, store, w.ms, t, FALSE)),
            ips, i + 1, e, store, t)

\* a done event after which the handler keeps looping
finishStream_open(s) ==
    [s EXCEPT !.events = Append(@, Event("done", "", "", s.total, s.total)),
              !.pendingItems = [i \in DOMAIN @ |-> [@[i] EXCEPT !.resolved = FALSE]],
              !.index = 1,
              !.pc = "waiting"]

\* the done event, after which the stream is closed
finishStream(s) ==
    [s EXCEPT !.events = Append(@, Event("done", "", "", s.total, s.total)),
              !.pc = "closed"]

\* an element of the body of the for-await loop of /api/check-exits/batch-stream
yieldExit(s, i) ==
    [s EXCEPT !.pendingItems[i].resolved = TRUE,
              !.completed = @ + 1,
              !.events = Append(@, Event("result", "", s.pendingItems[i].ip,
                                         s.completed + 1, s.total)),
              !.pc = "writing"]

\* processExitsStream: the while loop from its head; among the promises
\* already settled when Promise.race is called the first of the array wins
raceExits(s, cs) ==
    LET open  == {i \in 1..Len(s.pendingItems) : ~s.pendingItems[i].resolved}
        ready == {i \in open : cs[i].pc = "done"}
    IN  IF open = {} THEN finishStream(s)
        ELSE IF ready = {} THEN [s EXCEPT !.pc = "waiting"]
        ELSE yieldExit(s, CHOOSE i \in ready : \A j \in ready : i <= j)

\* /api/check-ip/batch-stream: the body of the for loop after its await
manualEvent(s, c) ==
    [s EXCEPT !.completed = @ + 1,
              !.events = Append(@, IF c.outcome = "thrown"
                                   THEN Event("error", "ITEM_FAILED", s.rows[s.index],
                                              s.completed + 1, s.total)
                                   ELSE Event("result", "", s.rows[s.index],
                                              s.completed + 1, s.total)),
              !.pc = "writing"]

\* /api/check-ip/batch-stream: the for loop from its head, at row s.index
manualAwait(s, w) ==
    [s |-> IF w.cs[s.index].pc = "done" THEN manualEvent(s, w.cs[s.index])
           ELSE [s EXCEPT !.pc = "waiting"],
     cs |-> w.cs, ms |-> w.ms]

manualRow(s, w, e, store, t) ==
    IF s.index > Len(s.rows) THEN [s |-> finishStream(s), cs |-> w.cs, ms |-> w.ms]
    ELSE manualAwait(s, inRecord(w.cs, s.index,
                                 beginCall(w.cs[s.index], s.rows[s.index], Undefined, "manual",
                                           DoneIn(w.cs), e, store, w.ms, t, FALSE)))

\* what the handler of the stream does when an aggregation has returned
resumeStream(s, cs) ==
    IF s.pc # "waiting" THEN s
    ELSE IF s.route = "exit" THEN raceExits(s, cs)
    ELSE IF cs[s.index].pc = "done" THEN manualEvent(s, cs[s.index])
    ELSE s

\* the promises of the aggregations settle one after the other: the records
\* from d on that have settled and are not yet in the order join it
RECURSIVE settledFrom(_, _, _)
settledFrom(order, cs, d) ==
    IF d \notin DOMAIN cs THEN order
    ELSE IF cs[d].pc = "done" /\ d \notin Range(order)
         THEN settledFrom(Append(order, d), cs, d + 1)
         ELSE settledFrom(order, cs, d + 1)
noteSettled(s, cs) ==
    IF s.pc = "none" THEN s ELSE [s EXCEPT !.order = settledFrom(@, cs, 1)]

(***************************************************************************)
(* Actions of the aggregator.                                              *)
(***************************************************************************)
Routes == {"manual", "exit"}
AsnArgs == {Undefined, Zero, AsnNumber, NoDigits}
\* /api/check-ip/detail passes no ASN; /api/check-exits/detail passes cfData.network?.asn
ArgsOf(route) == IF route = "manual" THEN {Undefined} ELSE AsnArgs

DoneCalls == {d \in CallIds : calls[d].pc = "done"}
Busy(d) == calls[d].pc \in {"wave1", "wave2", "writing"}

\* the record of a call whose response has been sent
RetiredCall == [IdleCall EXCEPT !.pc = "retired"]

\* a request reaches a route that calls checkSingleIpWithCache; with
\* `serial` the client sends it only after the responses to its earlier
\* requests, whose records are then dropped
StartCall(c, ip, route, asn, getThrows, serial) ==
    /\ calls[c].pc = "idle"
    /\ \A d \in CallIds : d < c => calls[d].pc # "idle"
    /\ serial => \A d \in CallIds : ~Busy(d)
    /\ getThrows => env.kvBound
    /\ stream.pc = "none"
    /\ \E w \in {beginCall(calls[c], ip, asn, route, DoneCalls,
                             env, kv, managers, now, getThrows)} :
           /\ calls' = [d \in CallIds |->
                           IF d = c THEN w.c
                           ELSE IF serial /\ calls[d].pc = "done" THEN RetiredCall
                           ELSE calls[d]]
           /\ managers' = w.ms
    /\ UNCHANGED <<env, now, kv, stream, pool, ai, world, pure, flights>>

\* the promise of the call of provider p settles after the response r
settleTask(w, p, r, t) ==
    IF p \in KeyedProviders
    THEN withTask(w, p, resumeWithResponse(w.ms[p], p, w.c.tasks[p], r, w.c.detectedAsn, t))
    ELSE [w EXCEPT !.c.tasks[p] = SettledWith(@, fetchApiData(p, r))]

\* the response r to the request in flight of provider p arrives
Settle(c, p, r) ==
    /\ calls[c].pc \in {"wave1", "wave2"}
    /\ calls[c].tasks[p].st = "inflight"
    /\ \E w \in {advance(settleTask([c |-> calls[c], ms |-> managers], p, r, now),
                           env, now)} :
           /\ calls' = [calls EXCEPT ![c] = w.c]
           /\ managers' = w.ms
    /\ stream' = noteSettled(resumeStream(stream, calls'), calls')
    /\ UNCHANGED <<env, now, kv, pool, ai, world, pure, flights>>

\* a KV write that is given up once the consumer of the stream has gone
CachePut_dropped(c, putThrows) ==
    /\ calls[c].pc = "writing"
    /\ kv' = IF stream.connected
             THEN [setCachedMergedIpData(env, kv, calls[c].ip, calls[c].pending,
                                         calls[c].ttl, now, putThrows)
                      EXCEPT ![getMergedIpCacheKey(calls[c].ip)].writer = c]
             ELSE kv
    /\ calls' = [calls EXCEPT ![c] =
                    returned(@, @.result, IF stream.connected THEN "stored" ELSE "nothing")]
    /\ stream' = noteSettled(resumeStream(stream, calls'), calls')
    /\ UNCHANGED <<env, now, managers, pool, ai, world, pure, flights>>

\* the KV write of the bundle completes (or throws) and the call returns
CachePut(c, putThrows) ==
    /\ calls[c].pc = "writing"
    /\ LET key == getMergedIpCacheKey(calls[c].ip)
           store == setCachedMergedIpData(env, kv, calls[c].ip, calls[c].pending,
                                          calls[c].ttl, now, putThrows)
       IN  /\ kv' = IF putThrows THEN store ELSE [store EXCEPT ![key].writer = c]
           /\ calls' = [calls EXCEPT ![c] =
                  [returned(@, @.result, IF putThrows THEN "threw" ELSE "stored")
                      EXCEPT !.expires = IF putThrows THEN 0 ELSE store[key].expires]]
    /\ stream' = noteSettled(resumeStream(stream, calls'), calls')
    /\ UNCHANGED <<env, now, managers, pool, ai, world, pure, flights>>

\* POST /api/check-exits/batch-stream with the exits of the addresses rows
OpenExitStream(rows) ==
    /\ stream.pc = "none"
    /\ \A c \in CallIds : calls[c].pc = "idle"
    /\ Len(rows) <= MaxCalls
    /\ \E ips \in {uniqueExits(rows, 1, <<>>)} :
       \E w \in {startPending([cs |-> calls, ms |-> managers], ips, 1, env, kv, now)} :
           /\ calls' = w.cs
           /\ managers' = w.ms
           /\ stream' = noteSettled(raceExits(
                  [NoStream EXCEPT
                      !.route = "exit", !.rows = rows, !.total = Len(rows),
                      !.pendingItems = [i \in 1..Len(ips) |->
                                           [ip |-> ips[i], resolved |-> FALSE]]],
                  w.cs), w.cs)
    /\ UNCHANGED <<env, now, kv, pool, ai, world, pure, flights>>

\* POST /api/check-ip/batch-stream with the addresses rows
OpenManualStream(rows) ==
    /\ stream.pc = "none"
    /\ \A c \in CallIds : calls[c].pc = "idle"
    /\ Len(rows) <= MaxCalls
    /\ \E r \in {manualRow([NoStream EXCEPT !.route = "manual", !.rows = rows,
                                              !.total = Len(rows), !.index = 1],
                             [cs |-> calls, ms |-> managers], env, kv, now)} :
           /\ calls' = r.cs
           /\ managers' = r.ms
           /\ stream' = noteSettled(r.s, r.cs)
    /\ UNCHANGED <<env, now, kv, pool, ai, world, pure, flights>>

\* stream.writeSSE of a per-address event resolves and the handler goes on
WriteSSE ==
    /\ stream.pc = "writing"
    /\ IF stream.route = "exit"
       THEN /\ stream' = raceExits(stream, calls)
            /\ UNCHANGED <<calls, managers>>
       ELSE \E r \in {manualRow([stream EXCEPT !.index = @ + 1],
                                 [cs |-> calls, ms |-> managers], env, kv, now)} :
                /\ calls' = r.cs
                /\ managers' = r.ms
                /\ stream' = noteSettled(r.s, r.cs)
    /\ UNCHANGED <<env, now, kv, pool, ai, world, pure, flights>>

\* a minute passes
Tick ==
    /\ now < MaxTime
    /\ now' = now + 1
    /\ UNCHANGED <<env, kv, managers, calls, stream, pool, ai, world, pure, flights>>

\* an exception leaves checkSingleIpWithCache of call c while it waits: the
\* case the catch blocks of the two stream handlers are written for
Raise(c) ==
    /\ stream.pc \in {"waiting", "writing"}
    /\ Busy(c)
    /\ calls' = [calls EXCEPT ![c] = thrown(@)]
    /\ stream' = noteSettled(resumeStream(stream, calls'), calls')
    /\ UNCHANGED <<env, now, kv, managers, pool, ai, world, pure, flights>>

\* the outer catch block of a stream handler: one STREAM_ERROR event, after
\* which the callback returns and the stream is closed
abortStream(s) ==
    [s EXCEPT !.events = Append(@, Event("error", "STREAM_ERROR", "", 0, 0)),
              !.pc = "closed"]

\* /api/check-ip/batch-stream: the inner catch block, entered from the write
\* of the result event of row s.index
itemFailed(s) ==
    [s EXCEPT !.completed = @ + 1,
              !.events = Append(@, Event("error", "ITEM_FAILED", s.rows[s.index],
                                         s.completed + 1, s.total)),
              !.pc = "writing"]

\* the stream without the event whose write failed, which was not emitted
unwritten(s) == [s EXCEPT !.events = SubSeq(@, 1, Len(@) - 1)]

\* the awaited stream.writeSSE of a per-address event or of the done event
\* rejects; the write of a result event of /api/check-ip/batch-stream stands
\* inside the inner try, every other one is caught by the outer catch
RejectSSE ==
    /\ \/ stream.pc = "writing"
       \/ stream.pc = "closed" /\ stream.events[Len(stream.events)].type = "done"
    /\ stream' = IF stream.route = "manual"
                    /\ stream.events[Len(stream.events)].type = "result"
                 THEN itemFailed(unwritten(stream))
                 ELSE abortStream(unwritten(stream))
    /\ UNCHANGED <<env, now, kv, managers, calls, pool, ai, world, pure, flights>>

\* the consumer of the stream goes away, having received the events whose
\* write has resolved; no handler listens for it
Disconnect ==
    /\ stream.pc \in {"waiting", "writing"}
    /\ stream.connected
    /\ stream' = [stream EXCEPT !.connected = FALSE,
                                !.delivered = IF stream.pc = "writing"
                                              THEN Len(stream.events) - 1
                                              ELSE Len(stream.events),
                                !.cut = {c \in CallIds : Busy(c)}]
    /\ UNCHANGED <<env, now, kv, managers, calls, pool, ai, world, pure, flights>>

(***************************************************************************)
(* The callers of one KeyManager, that of ipqs: fetchApiDataWithKeyManager *)
(* and executeWithKeyManager call getNextKey and then, once the request    *)
(* made with the key is answered, markSuccess, markFailure or neither.     *)
(***************************************************************************)
\* called: the last step was a call of getNextKey, which returned key at
\* time at and found the manager as before; run: the keys returned by the
\* calls of getNextKey since the key states were last changed from outside
NoPool ==
    [called |-> FALSE, key |-> NoKey, at |-> 0, before |-> NewKeyManager(0),
     run |-> <<>>]

PoolOf == "ipqs"

GetNextKey ==
    /\ Len(pool.run) < MaxRun
    /\ \E g \in {getNextKey(managers[PoolOf], now)} :
          /\ managers' = [managers EXCEPT ![PoolOf] = g.m]
          /\ pool' = [called |-> TRUE, key |-> g.key, at |-> now,
                      before |-> managers[PoolOf],
                      run |-> Append(pool.run, g.key)]
    /\ UNCHANGED <<env, now, kv, calls, stream, ai, world, pure, flights>>

\* what remains of the history once the key states have changed
changed == [pool EXCEPT !.called = FALSE, !.run = <<>>]

\* the request made with the key just handed out succeeded
MarkSuccess(k) ==
    /\ pool.called /\ k = pool.key /\ k # NoKey
    /\ managers[PoolOf].states[k].successCount < MaxSuccess
    /\ managers' = [managers EXCEPT ![PoolOf] = markSuccess(@, k)]
    /\ pool' = changed
    /\ UNCHANGED <<env, now, kv, calls, stream, ai, world, pure, flights>>

\* the request made with the key just handed out met a retryable failure
MarkFailure(k) ==
    /\ pool.called /\ k = pool.key /\ k # NoKey
    /\ managers[PoolOf].states[k].failureCount < MaxMarks
    /\ managers' = [managers EXCEPT ![PoolOf] = markFailure(@, k, now)]
    /\ pool' = changed
    /\ UNCHANGED <<env, now, kv, calls, stream, ai, world, pure, flights>>

\* d minutes pass
Pass(d) ==
    /\ now + d <= MaxPoolTime
    /\ now' = now + d
    /\ pool' = changed
    /\ UNCHANGED <<env, kv, managers, calls, stream, ai, world, pure, flights>>

(***************************************************************************)
(* Requests in flight over one KeyManager, that of ipqs.  A request takes  *)
(* a key with getNextKey (api/index.ts:66) and, when it is answered, calls *)
(* markSuccess (127), markFailure (110, 122) or neither (a failure that is *)
(* not retryable); other requests take and mark keys in between.           *)
(***************************************************************************)
\* inFlight: the key each request holds; op, key, at, before: the last call
\* of the KeyManager, its key, its time and the manager it found
NoFlights ==
    [inFlight |-> [r \in 1..MaxFlights |-> NoKey], op |-> "none", key |-> NoKey,
     at |-> 0, before |-> NewKeyManager(0)]

FlightIds == 1..MaxFlights

called(op, k, inFlight) ==
    [inFlight |-> inFlight, op |-> op, key |-> k, at |-> now, before |-> managers[PoolOf]]

\* request r asks for a key; without one it makes no request
Acquire(r) ==
    /\ flights.inFlight[r] = NoKey
    /\ \E g \in {getNextKey(managers[PoolOf], now)} :
          /\ managers' = [managers EXCEPT ![PoolOf] = g.m]
          /\ flights' = called("getNextKey", g.key, [flights.inFlight EXCEPT ![r] = g.key])
    /\ UNCHANGED <<env, now, kv, calls, stream, pool, ai, world, pure>>

\* request r is answered with a payload
Succeed(r) ==
    /\ flights.inFlight[r] # NoKey
    /\ managers[PoolOf].states[flights.inFlight[r]].successCount < MaxSuccess
    /\ managers' = [managers EXCEPT ![PoolOf] = markSuccess(@, flights.inFlight[r])]
    /\ flights' = called("markSuccess", flights.inFlight[r],
                         [flights.inFlight EXCEPT ![r] = NoKey])
    /\ UNCHANGED <<env, now, kv, calls, stream, pool, ai, world, pure>>

\* request r meets a retryable failure
Fail(r) ==
    /\ flights.inFlight[r] # NoKey
    /\ managers[PoolOf].states[flights.inFlight[r]].failureCount <= MaxMarks
    /\ managers' = [managers EXCEPT ![PoolOf] = markFailure(@, flights.inFlight[r], now)]
    /\ flights' = called("markFailure", flights.inFlight[r],
                         [flights.inFlight EXCEPT ![r] = NoKey])
    /\ UNCHANGED <<env, now, kv, calls, stream, pool, ai, world, pure>>

\* request r meets a failure that is not retryable: the key is not marked
Abandon(r) ==
    /\ flights.inFlight[r] # NoKey
    /\ flights' = called("none", NoKey, [flights.inFlight EXCEPT ![r] = NoKey])
    /\ UNCHANGED <<env, now, kv, managers, calls, stream, pool, ai, world, pure>>

(***************************************************************************)
(* Providers whose answer depends on nothing but the address asked about.  *)
(***************************************************************************)
NoWorld == [p \in Providers |-> [ip \in IPs |-> Timeout]]

\* the request of call c to provider p is answered as the world has it
Answer(c, p) == Settle(c, p, world[p][calls[c].ip])

(***************************************************************************)
(* AI analysis.  A text is a sequence of tokens; two of them stand for the *)
(* two texts the cache filter names.                                       *)
(***************************************************************************)
Space == " "
FailedPrefix == "AI Analysis Failed"
\* the text the client shows for a failed analysis ("temporarily unavailable")
Unavailable == "AI temporarily unavailable"
Word == "word"
Tokens == {Space, FailedPrefix, Unavailable, Word}
Texts == UNION {[1..n -> Tokens] : n \in 0..MaxText}

\* String.prototype.trim
RECURSIVE trimStart(_)
trimStart(s) == IF s # <<>> /\ Head(s) = Space THEN trimStart(Tail(s)) ELSE s
RECURSIVE trimEnd(_)
trimEnd(s) ==
    IF s # <<>> /\ s[Len(s)] = Space THEN trimEnd(SubSeq(s, 1, Len(s) - 1)) ELSE s
trim(s) == trimEnd(trimStart(s))

\* choices[0].message.content of the LLM's JSON answer: missing, a string,
\* or an object with a text field
Content(shape, text) == [shape |-> shape, text |-> text]
Contents ==
    {Content("missing", <<>>)} \cup {Content("string", t) : t \in Texts}
    \cup {Content("object", t) : t \in {<<>>, <<Space, Word>>}}

\* normalizeContent
normalizeContent(raw) ==
    IF raw.shape = "object"
    THEN trim(IF raw.text # <<>> THEN raw.text ELSE <<Word>>)   \* text || JSON.stringify(raw)
    ELSE IF raw.shape = "string" THEN trim(raw.text)
    ELSE trim(<<>>)                                              \* String(raw ?? '')

\* what the LLM endpoint answers: status 0 when fetch threw
LlmAnswer(status, json, content) == [status |-> status, json |-> json, content |-> content]
LlmAnswers ==
    {LlmAnswer(0, FALSE, Content("missing", <<>>)),
     LlmAnswer(500, FALSE, Content("missing", <<>>)),
     LlmAnswer(200, FALSE, Content("missing", <<>>))}
    \cup {LlmAnswer(200, TRUE, c) : c \in Contents}

\* LlmResult: the reasoning, and debug.error ("none" when debug has no error)
LlmResult(reasoning, error) == [reasoning |-> reasoning, debug |-> [error |-> error]]
NoLlmResult == LlmResult(<<>>, "none")

\* the way the answer a of the LLM endpoint fails, "none" when it does not:
\* fetch threw (transport failure, timeout), the status is not 2xx, or
\* response.json() threw
failureOf(a) ==
    IF a.status = 0 THEN "fetch failed"
    ELSE IF a.status # 200 THEN "LLM API error"
    ELSE IF ~a.json THEN "Unexpected token"
    ELSE "none"

\* what a call of an async function comes to: a value, or an exception
Returned(value) == [thrown |-> FALSE, value |-> value]
Threw == [thrown |-> TRUE, value |-> NoLlmResult]

\* analyzeWithLLM without its outer catch block
analyzeWithLLM_uncaught(a) ==
    IF failureOf(a) # "none" THEN Threw
    ELSE Returned(LlmResult(normalizeContent(a.content), "none"))

\* analyzeWithLLM once the endpoint has answered a
analyzeWithLLM(a) ==
    IF failureOf(a) # "none"
    THEN \* `AI Analysis Failed: ${message}`, debug: { error: message }
         Returned(LlmResult(<<FailedPrefix, failureOf(a)>>, failureOf(a)))
    ELSE Returned(LlmResult(normalizeContent(a.content), "none"))

\* buildUserPrompt, called before the try block of analyzeWithLLM, throws on
\* a data object it cannot read (an ipType.sources list holding null)
buildUserPromptThrows(data) == data = "hostile"

\* the shouldCache option both routes pass to getOrSetCache
shouldCache(value) ==
    /\ value.reasoning # <<Unavailable>>
    /\ ~(value.reasoning # <<>> /\ Head(value.reasoning) = FailedPrefix)

\* the key `${cacheVersion}:ai:analysis:${ip}`
getAiCacheKey(ip) == <<CACHE_VERSION, "ai", "analysis", ip>>
\* the addresses AI analyses are asked for
AiIPs == {"ip1"}
AiKeys == {getAiCacheKey(ip) : ip \in AiIPs}
NoAiEntry == [present |-> FALSE, value |-> NoLlmResult, expires |-> 0]

AiReqs == 1..MaxAiReqs
IdleAiReq ==
    [pc |-> "idle", ip |-> "none", route |-> "none", data |-> "none", status |-> 0,
     result |-> NoLlmResult, failure |-> "none"]
NoAi == [llm |-> FALSE, store |-> [k \in AiKeys |-> NoAiEntry],
         reqs |-> [r \in AiReqs |-> IdleAiReq]]

\* the catch block around getOrSetCache: /api/ai-analysis answers 500,
\* /api/check logs and goes on without aiReasoning
routeCatch(q) ==
    [q EXCEPT !.pc = "done", !.status = IF q.route = "ai-analysis" THEN 500 ELSE 200,
              !.result = NoLlmResult]

\* getOrSetCache up to its await of fetcher(): answered from the cache, or
\* waiting for the LLM, or left by the exception of buildUserPrompt
getOrSetCache(q, ip, route, data, e, store, t, getThrows) ==
    LET key == getAiCacheKey(ip)
        started == [q EXCEPT !.ip = ip, !.route = route, !.data = data]
    IN  IF e.kvBound /\ ~getThrows /\ store[key].present /\ t < store[key].expires
        THEN [started EXCEPT !.pc = "done", !.status = 200, !.result = store[key].value]
        ELSE IF buildUserPromptThrows(data) THEN routeCatch(started)
        ELSE [started EXCEPT !.pc = "fetching"]

\* POST /api/ai-analysis with the data of the request body ("none" when the
\* field is missing), and the AI step of /api/check (skipAI unset), whose
\* data is the result the worker has just built
AiAnalysis(r, ip, route, data, getThrows) ==
    /\ ai.reqs[r].pc = "idle"
    /\ getThrows => env.kvBound /\ ai.llm /\ data # "none"
    /\ route = "check" => data = "ok"
    /\ LET q == ai.reqs[r]
           refused(code) ==
               [q EXCEPT !.pc = "done", !.ip = ip, !.route = route, !.data = data,
                         !.status = code]
       IN  ai' = [ai EXCEPT !.reqs[r] =
                    IF route = "ai-analysis" /\ data = "none" THEN refused(400)
                    ELSE IF route = "ai-analysis" /\ ~ai.llm THEN refused(503)
                    ELSE IF ~ai.llm THEN refused(200)
                    ELSE getOrSetCache(q, ip, route, data, env, ai.store, now, getThrows)]
    /\ UNCHANGED <<env, now, kv, managers, calls, stream, pool, world, pure, flights>>

\* getOrSetCache from the answer of the LLM on: the filter, then the write
LlmAnswered(r, a, putThrows) ==
    /\ ai.reqs[r].pc = "fetching"
    /\ \E out \in {analyzeWithLLM(a)} :
        /\ putThrows => env.kvBound /\ ~out.thrown /\ shouldCache(out.value)
        /\ LET key == getAiCacheKey(ai.reqs[r].ip)
               writes == env.kvBound /\ ~out.thrown /\ shouldCache(out.value) /\ ~putThrows
               q == [ai.reqs[r] EXCEPT !.failure = failureOf(a)]
           IN  ai' = [ai EXCEPT
                        !.reqs[r] = IF out.thrown THEN routeCatch(q)
                                    ELSE [q EXCEPT !.pc = "done", !.status = 200,
                                                   !.result = out.value],
                        !.store[key] =
                            IF writes
                            THEN [present |-> TRUE, value |-> out.value,
                                  expires |-> now + (getCacheTTL(env) \div SecondsPerUnit)]
                            ELSE @]
    /\ UNCHANGED <<env, now, kv, managers, calls, stream, pool, world, pure, flights>>

\* the client has its response; the record is free for the next request
AiRespond(r) ==
    /\ ai.reqs[r].pc = "done"
    /\ ai' = [ai EXCEPT !.reqs[r] = IdleAiReq]
    /\ UNCHANGED <<env, now, kv, managers, calls, stream, pool, world, pure, flights>>

(***************************************************************************)
(* prepareExits.  An exit is a record of its exitType and its cfData, of   *)
(* which the address is kept.                                              *)
(***************************************************************************)
NoPure == [op |-> "none"]

\* EXIT_TYPE_ORDER
EXIT_TYPE_ORDER ==
    [t \in {"ipv4", "ipv6", "warp_v4", "warp_v6", "he_v6"} |->
        CASE t = "ipv4" -> 1 [] t = "ipv6" -> 2 [] t = "warp_v4" -> 3
          [] t = "warp_v6" -> 4 [] t = "he_v6" -> 5]
UnknownOrder == 999
\* the names an object literal inherits from Object.prototype; a lookup of
\* one of them finds a function
InheritedNames == {"constructor"}
Weight(n) == [isNumber |-> TRUE, n |-> n]
AFunction == [isNumber |-> FALSE, n |-> 0]

\* EXIT_TYPE_ORDER[exitType] || 999
orderOf(t) ==
    IF t \in DOMAIN EXIT_TYPE_ORDER THEN Weight(EXIT_TYPE_ORDER[t])
    ELSE IF t \in InheritedNames THEN AFunction
    ELSE Weight(UnknownOrder)

\* the exit types of the model in the order of String.prototype.localeCompare
NameOrder == <<"alpha", "beta", "constructor", "he_v6", "ipv4", "ipv6">>
ExitTypes == {NameOrder[i] : i \in 1..Len(NameOrder)}
rankOf(t) == CHOOSE i \in 1..Len(NameOrder) : NameOrder[i] = t
localeCompare(a, b) == rankOf(a) - rankOf(b)

NaNResult == [nan |-> TRUE, v |-> 0]
Result(v) == [nan |-> FALSE, v |-> v]
\* the comparator given to sort; a function minus a number is NaN
compareExits(a, b) ==
    LET orderA == orderOf(a.exitType)
        orderB == orderOf(b.exitType)
    IN  IF orderA # orderB
        THEN IF orderA = AFunction \/ orderB = AFunction THEN NaNResult
             ELSE Result(orderA.n - orderB.n)
        ELSE Result(localeCompare(a.exitType, b.exitType))
Exit(t, ip) == [exitType |-> t, cfData |-> [ip |-> ip]]
ExitLists == UNION {[1..n -> {Exit(t, ip) : t \in ExitTypes, ip \in IPs}] : n \in 1..MaxExits}

\* the comparator is a consistent comparison function for the elements of
\* the list: here, it never returns NaN
Consistent(list) ==
    \A i, j \in 1..Len(list) : ~compareExits(list[i], list[j]).nan

\* an insertion that puts an element before the elements equal to it
RECURSIVE insertSorted_beforeEquals(_, _)
insertSorted_beforeEquals(sorted, x) ==
    IF sorted = <<>> THEN <<x>>
    ELSE IF compareExits(x, sorted[Len(sorted)]).v <= 0
         THEN Append(insertSorted_beforeEquals(SubSeq(sorted, 1, Len(sorted) - 1), x),
                     sorted[Len(sorted)])
         ELSE Append(sorted, x)

\* a stable sort: each element goes behind the elements that are not greater
RECURSIVE insertSorted(_, _)
insertSorted(sorted, x) ==
    IF sorted = <<>> THEN <<x>>
    ELSE IF compareExits(x, sorted[Len(sorted)]).v < 0
         THEN Append(insertSorted(SubSeq(sorted, 1, Len(sorted) - 1), x), sorted[Len(sorted)])
         ELSE Append(sorted, x)
RECURSIVE stableSort(_, _, _)
stableSort(list, i, sorted) ==
    IF i > Len(list) THEN sorted
    ELSE stableSort(list, i + 1, insertSorted(sorted, list[i]))

Orderings(list) ==
    {[i \in 1..Len(list) |-> list[f[i]]] :
        f \in {g \in [1..Len(list) -> 1..Len(list)] :
                  \A i, j \in 1..Len(list) : g[i] = g[j] => i = j}}

\* [...exits].sort(comparator): the order is implementation-defined when
\* the comparator is not consistent
sortOutcomes(list) ==
    IF Consistent(list) THEN {stableSort(list, 1, <<>>)} ELSE Orderings(list)

PreparedIpItem(exit) ==
    [ip |-> exit.cfData.ip, exitType |-> exit.exitType, cfData |-> exit.cfData,
     order |-> orderOf(exit.exitType)]

\* the loop over sortedExits: the first exit of every address is kept
RECURSIVE keepFirst(_, _, _)
keepFirst(sortedExits, i, ipList) ==
    IF i > Len(sortedExits) THEN ipList
    ELSE IF \E j \in 1..Len(ipList) : ipList[j].ip = sortedExits[i].cfData.ip
         THEN keepFirst(sortedExits, i + 1, ipList)
         ELSE keepFirst(sortedExits, i + 1, Append(ipList, PreparedIpItem(sortedExits[i])))

\* prepareExits, sortedExits being what sort returned
prepareExits(sortedExits) ==
    LET ipList == keepFirst(sortedExits, 1, <<>>)
    IN  [ipList |-> ipList, uniqueIpCount |-> Len(ipList)]

\* the (exitType, cfData) items of an ipList
exitsOf(ipList) ==
    [i \in 1..Len(ipList) |-> [exitType |-> ipList[i].exitType, cfData |-> ipList[i].cfData]]

\* prepareExits is called with the list pure.exits
PrepareExits ==
    /\ pure.op = "exits"
    /\ \E sortedExits \in sortOutcomes(pure.exits) :
           pure' = [op |-> "prepared", exits |-> pure.exits, input |-> pure.exits,
                    first |-> prepareExits(sortedExits),
                    out |-> prepareExits(sortedExits)]
    /\ UNCHANGED <<env, now, kv, managers, calls, stream, pool, ai, world, flights>>

\* prepareExits is called with the items of the list it returned
PrepareAgain ==
    /\ pure.op = "prepared"
    /\ \E sortedExits \in sortOutcomes(exitsOf(pure.first.ipList)) :
           pure' = [pure EXCEPT !.op = "again", !.input = exitsOf(pure.first.ipList),
                                !.out = prepareExits(sortedExits)]
    /\ UNCHANGED <<env, now, kv, managers, calls, stream, pool, ai, world, flights>>

(***************************************************************************)
(* IP type and IP source of a merged record.  A type string is a sequence  *)
(* of words and separators; String.includes is matched word by word (no    *)
(* word of TypeStrings holds a pattern word as a proper part).  A field of *)
(* the merged map is a JavaScript value: a string or undefined.            *)
(***************************************************************************)
Slash == "/"

StringValue(s) == [type |-> "string", s |-> s]
UndefinedValue == [type |-> "undefined", s |-> <<>>]

\* String.prototype.toUpperCase, word by word
upperWord(w) ==
    CASE w = "Residential" -> "RESIDENTIAL"
      [] w = "Data" -> "DATA"
      [] w = "Center" -> "CENTER"
      [] w = "Web" -> "WEB"
      [] w = "Hosting" -> "HOSTING"
      [] w = "Transit" -> "TRANSIT"
      [] w = "Fixed" -> "FIXED"
      [] w = "Line" -> "LINE"
      [] w = "Mobile" -> "MOBILE"
      [] w = "Search" -> "SEARCH"
      [] w = "Engine" -> "ENGINE"
      [] w = "Spider" -> "SPIDER"
      [] w = "Library" -> "LIBRARY"
      [] w = "Premium" -> "PREMIUM"
      [] w = "required." -> "REQUIRED."
      [] w = "dch" -> "DCH"
      [] OTHER -> w

toUpperCase(s) == [i \in 1..Len(s) |-> upperWord(s[i])]

\* String.prototype.includes
includes(s, p) == \E i \in 1..(Len(s) - Len(p) + 1) : SubSeq(s, i, i + Len(p) - 1) = p

\* IP_TYPE_PATTERNS, in the order of Object.entries
IP_TYPE_PATTERNS ==
    << [type |-> "residential",
        includes |-> {<<"RESIDENTIAL">>, <<"FIXED", Space, "LINE">>,
                      <<"FIXED", Space, "LINE", Space, "ISP">>, <<"CONSUMER">>},
        exact |-> {<<"ISP">>}],
       [type |-> "mobile",
        includes |-> {<<"MOBILE">>, <<"CELLULAR">>, <<"WIRELESS">>},
        exact |-> {<<"MOB">>}],
       [type |-> "datacenter",
        includes |-> {<<"DATA", Space, "CENTER">>, <<"HOSTING">>, <<"TRANSIT">>,
                      <<"DATACENTER">>, <<"SERVER">>, <<"WEB", Space, "HOSTING">>,
                      <<"CONTENT">>},
        exact |-> {<<"DCH">>}],
       [type |-> "commercial",
        includes |-> {<<"CORPORATE">>, <<"COMMERCIAL">>, <<"BUSINESS">>,
                      <<"ENTERPRISE">>, <<"ORGANIZATION">>},
        exact |-> {<<"COM">>}],
       [type |-> "education",
        includes |-> {<<"EDUCATION">>, <<"UNIVERSITY">>, <<"SCHOOL">>,
                      <<"ACADEMIC">>, <<"LIBRARY">>},
        exact |-> {<<"EDU">>}],
       [type |-> "government",
        includes |-> {<<"GOVERNMENT">>, <<"MILITARY">>},
        exact |-> {<<"GOV">>, <<"MIL">>}],
       [type |-> "library",
        includes |-> {<<"LIBRARY">>},
        exact |-> {<<"LIB">>}] >>

matchesTypePattern(typeUpper, patterns) ==
    \/ typeUpper \in patterns.exact
    \/ \E p \in patterns.includes : includes(typeUpper, p)

RECURSIVE firstPattern(_, _)
\* the loop of normalizeIpType over Object.entries(IP_TYPE_PATTERNS)
firstPattern(typeUpper, i) ==
    IF i > Len(IP_TYPE_PATTERNS) THEN "unknown"
    ELSE IF matchesTypePattern(typeUpper, IP_TYPE_PATTERNS[i])
         THEN (IF IP_TYPE_PATTERNS[i].type = "library" THEN "education"
               ELSE IP_TYPE_PATTERNS[i].type)
         ELSE firstPattern(typeUpper, i + 1)

normalizeIpType(rawType) ==
    IF rawType.type # "string" \/ rawType.s = <<>> THEN "unknown"
    ELSE firstPattern(trim(toUpperCase(rawType.s)), 1)

TypeSourceDetail(source, rawType, normalizedType) ==
    [source |-> source, rawType |-> rawType, normalizedType |-> normalizedType]

\* merged.f && typeof merged.f === 'string'
nonEmptyString(v) == v.type = "string" /\ v.s # <<>>

extractTypeSourceDetails(merged) ==
    (IF nonEmptyString(merged.connection_type)
        /\ ~includes(merged.connection_type.s, <<"Premium">>)
     THEN <<TypeSourceDetail("IPQS", merged.connection_type.s,
                             normalizeIpType(merged.connection_type))>>
     ELSE <<>>)
    \o (IF nonEmptyString(merged.usageType)
        THEN <<TypeSourceDetail("AbuseIPDB", merged.usageType.s,
                                normalizeIpType(merged.usageType))>>
        ELSE <<>>)
    \o (IF nonEmptyString(merged.ip2location_usage)
        THEN <<TypeSourceDetail("IP2Location", merged.ip2location_usage.s,
                                normalizeIpType(merged.ip2location_usage))>>
        ELSE <<>>)
    \o (IF merged.ipinfo_hosting = "true"
        THEN <<TypeSourceDetail("IPInfo Hosting", <<"Hosting", Slash, "Data", Space, "Center">>,
                                "datacenter")>>
        ELSE <<>>)

\* typeVotes[t] = (typeVotes[t] || 0) + 1: an object keeps its keys in the
\* order of their insertion
addVote(typeVotes, t) ==
    IF \E j \in 1..Len(typeVotes) : typeVotes[j].type = t
    THEN [j \in 1..Len(typeVotes) |->
             IF typeVotes[j].type = t
             THEN [type |-> t, votes |-> typeVotes[j].votes + 1]
             ELSE typeVotes[j]]
    ELSE Append(typeVotes, [type |-> t, votes |-> 1])

RECURSIVE countVotes_unknownToo(_, _, _)
countVotes_unknownToo(details, i, typeVotes) ==
    IF i > Len(details) THEN typeVotes
    ELSE countVotes_unknownToo(details, i + 1, addVote(typeVotes, details[i].normalizedType))

RECURSIVE countVotes(_, _, _)
\* typeSourceDetails.forEach
countVotes(details, i, typeVotes) ==
    IF i > Len(details) THEN typeVotes
    ELSE countVotes(details, i + 1,
                    IF details[i].normalizedType # "unknown"
                    THEN addVote(typeVotes, details[i].normalizedType)
                    ELSE typeVotes)

RECURSIVE maxVote(_, _, _, _)
\* for (const [type, votes] of Object.entries(typeVotes))
maxVote(typeVotes, j, ipTypeNormalized, maxVotes) ==
    IF j > Len(typeVotes) THEN ipTypeNormalized
    ELSE IF typeVotes[j].votes > maxVotes
         THEN maxVote(typeVotes, j + 1, typeVotes[j].type, typeVotes[j].votes)
         ELSE maxVote(typeVotes, j + 1, ipTypeNormalized, maxVotes)

RECURSIVE maxVote_lastWins(_, _, _, _)
maxVote_lastWins(typeVotes, j, ipTypeNormalized, maxVotes) ==
    IF j > Len(typeVotes) THEN ipTypeNormalized
    ELSE IF typeVotes[j].votes >= maxVotes
         THEN maxVote_lastWins(typeVotes, j + 1, typeVotes[j].type, typeVotes[j].votes)
         ELSE maxVote_lastWins(typeVotes, j + 1, ipTypeNormalized, maxVotes)

voteIpType_lastWins(typeSourceDetails) ==
    maxVote_lastWins(countVotes(typeSourceDetails, 1, <<>>), 1, "unknown", 0)

voteIpType(typeSourceDetails) ==
    maxVote(countVotes(typeSourceDetails, 1, <<>>), 1, "unknown", 0)

isHostingIp_winnerOnly(merged, ipTypeNormalized) ==
    \/ ipTypeNormalized = "datacenter"
    \/ merged.ipinfo_hosting = "true"

isHostingIp(merged, ipTypeNormalized) ==
    \/ ipTypeNormalized = "datacenter"
    \/ merged.ipinfo_hosting = "true"
    \/ normalizeIpType(merged.connection_type) = "datacenter"
    \/ normalizeIpType(merged.usageType) = "datacenter"
    \/ normalizeIpType(merged.ip2location_usage) = "datacenter"

\* String.prototype.toUpperCase on a country code
upperCode(c) ==
    CASE c = "us" -> "US"
      [] c = "de" -> "DE"
      [] OTHER -> c

\* a || b: the first truthy operand, or the last one
or(a, b) == IF Truthy(a) THEN a ELSE b

getRegisteredCountryFromMerged(merged) ==
    IF Truthy(merged.ipguide_asn_country) THEN upperCode(merged.ipguide_asn_country)
    ELSE Null

IpSourceInfo(geoCountry, registryCountry, isNative, reason) ==
    [geoCountry |-> geoCountry, registryCountry |-> registryCountry,
     isNative |-> isNative, reason |-> reason]

geoCountryOf_asWritten(merged) ==
    or(or(or(or(merged.ip2location_country_code, merged.countryCode),
             merged.country_code), merged.ipinfo_country), EmptyString)

geoCountryOf(merged) ==
    upperCode(or(or(or(or(merged.ip2location_country_code, merged.countryCode),
                       merged.country_code), merged.ipinfo_country), EmptyString))

buildIpSourceInfo(merged) ==
    LET geoCountry == geoCountryOf(merged)
        registryCountry == getRegisteredCountryFromMerged(merged)
    IN  IF Truthy(geoCountry) /\ Truthy(registryCountry)
        THEN IF geoCountry = registryCountry
             THEN IpSourceInfo(geoCountry, registryCountry, "true",
                               <<"registry and location agree", geoCountry>>)
             ELSE IpSourceInfo(geoCountry, registryCountry, "false",
                               <<"registry", registryCountry, "location", geoCountry>>)
        ELSE IF Truthy(geoCountry)
        THEN IpSourceInfo(geoCountry, Null, Null,
                          <<"location only", geoCountry>>)
        ELSE IF Truthy(registryCountry)
        THEN IpSourceInfo(Null, registryCountry, Null,
                          <<"registry only", registryCountry>>)
        ELSE IpSourceInfo(Null, Null, Null, <<"insufficient data">>)

\* the summary that buildDetailResult makes of the type and the risk
buildIpCheckResult(merged, ipSourceInfo) ==
    LET typeSourceDetails == extractTypeSourceDetails(merged)
        ipTypeNormalized == voteIpType(typeSourceDetails)
    IN  [ipType |-> [raw |-> ipTypeNormalized, sources |-> typeSourceDetails],
         ipSource |-> ipSourceInfo,
         risk |-> [isHosting |-> isHostingIp(merged, ipTypeNormalized)]]

\* what the providers may report of one address
ConnectionTypes ==
    {UndefinedValue,
     StringValue(<<"Residential">>),
     StringValue(<<"Data", Space, "Center">>),
     StringValue(<<"Premium", Space, "required.">>),
     StringValue(<<"Premium", Space, "Hosting">>)}

UsageTypes ==
    {UndefinedValue,
     StringValue(<<"Data", Space, "Center", Slash, "Web", Space, "Hosting", Slash, "Transit">>),
     StringValue(<<"Fixed", Space, "Line", Space, "ISP">>),
     StringValue(<<"Mobile", Space, "ISP">>),
     StringValue(<<"Search", Space, "Engine", Space, "Spider">>),
     StringValue(<<"Library">>)}

Ip2LocationUsages ==
    {UndefinedValue,
     StringValue(<<>>),
     StringValue(<<"ISP">>),
     StringValue(<<"MOB">>),
     StringValue(<<"LIB">>),
     StringValue(<<"CDN">>),
     StringValue(<<"ISP", Slash, "MOB">>),
     StringValue(<<Space, "dch">>)}

HostingFlags == {Undefined, "false", "true"}

CountryCodes == {Undefined, "us", "DE"}

MergedRecords ==
    [connection_type : ConnectionTypes, usageType : UsageTypes,
     ip2location_usage : Ip2LocationUsages, ipinfo_hosting : HostingFlags,
     ip2location_country_code : CountryCodes, countryCode : {Undefined},
     country_code : {Undefined, "US"}, ipinfo_country : {Undefined, "DE"},
     ipguide_asn_country : {Undefined, EmptyString, "US", "de"}]

\* manual check: buildIpSourceInfo(apiResult.merged)
BuildIpSourceInfo ==
    /\ pure.op = "merged"
    /\ pure' = [op |-> "sourced", merged |-> pure.merged,
                ipSourceInfo |-> buildIpSourceInfo(pure.merged)]
    /\ UNCHANGED <<env, now, kv, managers, calls, stream, pool, ai, world, flights>>

\* manual check: buildIpCheckResult(ip, apiResult, ipSourceInfo)
BuildIpCheckResult ==
    /\ pure.op = "sourced"
    /\ pure' = [op |-> "built", merged |-> pure.merged,
                summary |-> buildIpCheckResult(pure.merged, pure.ipSourceInfo)]
    /\ UNCHANGED <<env, now, kv, managers, calls, stream, pool, ai, world, flights>>

(***************************************************************************)
(* KeyManager.isKeyRelatedError on texts.  A text is a sequence of pieces  *)
(* of words and separators, so that 'throttl' is a part of 'Throttled'.    *)
(* The response is an Error with a message, or a parsed payload of one     *)
(* field, which JSON.stringify writes out with its field name.             *)
(***************************************************************************)
Quote == "\""

\* String.prototype.toLowerCase, piece by piece
lowerPiece(w) ==
    CASE w = "Quota" -> "quota"
      [] w = "Exceeded" -> "exceeded"
      [] w = "Rate" -> "rate"
      [] w = "Throttl" -> "throttl"
      [] w = "Unauthorized" -> "unauthorized"
      [] w = "Invalid" -> "invalid"
      [] w = "API" -> "api"
      [] w = "Too" -> "too"
      [] w = "Daily" -> "daily"
      [] w = "Not" -> "not"
      [] OTHER -> w

toLowerCase(s) == [i \in 1..Len(s) |-> lowerPiece(s[i])]

\* errorMessages
errorMessages ==
    {<<"rate", Space, "limit">>, <<"quota", Space, "exceeded">>,
     <<"limit", Space, "exceeded">>, <<"request", Space, "quota">>,
     <<"invalid", Space, "key">>, <<"invalid", Space, "api", Space, "key">>,
     <<"unauthorized">>, <<"too", Space, "many", Space, "requests">>,
     <<"daily", Space, "limit">>, <<"monthly", Space, "limit">>,
     <<"exceeded">>, <<"throttl">>}

ErrorObject(message) == [kind |-> "Error", name |-> <<>>, text |-> message]
Payload(name, value) == [kind |-> "payload", name |-> name, text |-> value]

\* JSON.stringify of a payload of one field
stringify(response) ==
    <<"{", Quote>> \o response.name \o <<Quote, ":", Quote>> \o response.text \o <<Quote, "}">>

\* the text that isKeyRelatedError searches
responseStr(response) ==
    IF response.kind = "Error" THEN toLowerCase(response.text)
    ELSE toLowerCase(stringify(response))

containsKeyPhrase(response) ==
    \E msg \in errorMessages : includes(responseStr(response), msg)

\* statuses and texts that a provider or the runtime produces
Statuses == {0, 200, 401, 403, 404, 429, 500}

ErrorTexts ==
    {<<>>,
     <<"Not", Space, "found">>,
     <<"Quota", Space, "reached">>,
     <<"Quota", Space, "Exceeded">>,
     <<"exceeded", Space, "your", Space, "request", Space, "quota">>,
     <<"Rate", Space, "limit">>,
     <<"Rate", "limit">>,
     <<"Throttl", "ed">>,
     <<"Unauthorized">>,
     <<"Invalid", Space, "API", Space, "key">>,
     <<"Invalid", Space, "key">>,
     <<"Too", Space, "many", Space, "requests">>,
     <<"Daily", Space, "limit">>,
     <<"monthly", Space, "limit">>}

KeyErrorResponses ==
    {ErrorObject(t) : t \in ErrorTexts}
    \cup {Payload(n, t) : n \in {<<"message">>, <<"quota">>}, t \in ErrorTexts}

\* manager.isKeyRelatedError(status, response)
IsKeyRelatedError ==
    /\ pure.op = "error"
    /\ pure' = [op |-> "classified", status |-> pure.status, response |-> pure.response,
                result |-> isKeyRelatedError(pure.status, containsKeyPhrase(pure.response))]
    /\ UNCHANGED <<env, now, kv, managers, calls, stream, pool, ai, world, flights>>

(***************************************************************************)
(* Configurations.                                                         *)
(***************************************************************************)
NoKeys == [p \in KeyedProviders |-> KeyUnset]
\* only the key-less provider; two ipqs keys and a Cloudflare token; every
\* provider with one key
KeysGuideOnly == NoKeys
KeysIpqsAndCf == [NoKeys EXCEPT !["ipqs"] = 2, !["cloudflare_asn"] = 1]
KeysAll == [p \in KeyedProviders |-> 1]

Env(keys, kvBound, ttl) == [keys |-> keys, kvBound |-> kvBound, cacheTtlSeconds |-> ttl]

\* the key manager of provider p after one more call to p in which every
\* request was answered by r
RECURSIVE answerAll(_, _, _, _)
answerAll(s, p, r, t) ==
    IF s.task.st = "inflight"
    THEN answerAll(resumeWithResponse(s.m, p, s.task, r, AsnNumber, t), p, r, t)
    ELSE s.m
managerAfter(m, p, r, t) ==
    answerAll(fetchApiDataWithKeyManager(m, p, IdleTask, AsnNumber, t), p, r, t)

\* states a pool of n keys is in after no call, one successful call, one
\* call and two calls whose every attempt met HTTP 429
PoolStates(p, n) ==
    LET fresh == NewKeyManager(n)
        once  == managerAfter(fresh, p, Http(429), 1)
    IN  {fresh, managerAfter(fresh, p, Ok(AsnNumber), 1), once,
         managerAfter(once, p, Http(429), 1)}

InitWith(envs, pools) ==
    /\ env \in envs
    /\ now = 1
    /\ kv = [k \in CacheKeys |-> EmptyEntry]
    /\ managers \in {[p \in KeyedProviders |->
                        IF p = "ipqs" THEN m ELSE NewKeyManager(ParseKeys(env.keys[p]))] :
                     m \in IF pools THEN PoolStates("ipqs", ParseKeys(env.keys["ipqs"]))
                           ELSE {NewKeyManager(ParseKeys(env.keys["ipqs"]))}}
    /\ calls = [c \in CallIds |-> IdleCall]
    /\ stream = NoStream
    /\ pool = NoPool
    /\ ai = NoAi
    /\ world = NoWorld
    /\ pure = NoPure
    /\ flights = NoFlights

(***************************************************************************)
(* Spec: one aggregation, from any state of the ipqs pool, with every kind *)
(* of provider response.                                                   *)
(***************************************************************************)
KeysBlankIpqs == [NoKeys EXCEPT !["ipqs"] = 0]
Envs ==
    {Env(KeysIpqsAndCf, TRUE, 30), Env(KeysIpqsAndCf, FALSE, NotANumber),
     Env(KeysBlankIpqs, FALSE, NotANumber), Env(KeysGuideOnly, TRUE, 120)}

Init == InitWith(Envs, TRUE)

Next ==
    \/ \E route \in Routes, getThrows \in BOOLEAN :
          \E asn \in ArgsOf(route) : StartCall(1, "ip1", route, asn, getThrows, TRUE)
    \/ \E p \in Providers, r \in Responses : Settle(1, p, r)
    \/ \E putThrows \in BOOLEAN : CachePut(1, putThrows)

Spec == Init /\ [][Next]_vars

(***************************************************************************)
(* SpecRegistry: one aggregation with every provider of the registry       *)
(* enabled, one key each.                                                  *)
(***************************************************************************)
RegistryResponses == {Ok(AsnNumber), Ok(Undefined), Timeout, Http(429)}

InitRegistry == InitWith({Env(KeysAll, FALSE, NotANumber)}, FALSE)

NextRegistry ==
    \/ \E route \in Routes :
          \E asn \in ArgsOf(route) \ {Zero} : StartCall(1, "ip1", route, asn, FALSE, TRUE)
    \/ \E p \in Providers, r \in RegistryResponses : Settle(1, p, r)

SpecRegistry == InitRegistry /\ [][NextRegistry]_vars

(***************************************************************************)
(* SpecCache: calls for one address that overlap or follow each other      *)
(* while the clock runs, over a working KV namespace.                      *)
(***************************************************************************)
KeysIp2Location == [NoKeys EXCEPT !["ip2location"] = 1]
CacheEnvs == {Env(KeysGuideOnly, TRUE, 120)}

InitCache == InitWith(CacheEnvs, FALSE)

NextCache ==
    \/ \E c \in CallIds, route \in Routes :
          StartCall(c, "ip1", route, Undefined, FALSE, FALSE)
    \/ \E c \in CallIds, p \in Providers, r \in TwoResponses : Settle(c, p, r)
    \/ \E c \in CallIds : CachePut(c, FALSE)
    \/ Tick

SpecCache == InitCache /\ [][NextCache]_vars

(***************************************************************************)
(* SpecSerial: calls that follow each other, each sent after the response  *)
(* to the one before, with a second provider enabled.                      *)
(***************************************************************************)
InitSerial == InitWith({Env(KeysIp2Location, TRUE, 120)}, FALSE)

NextSerial ==
    \/ \E c \in CallIds, ip \in IPs, route \in Routes :
          StartCall(c, ip, route, Undefined, FALSE, TRUE)
    \/ \E c \in CallIds, p \in Providers, r \in TwoResponses : Settle(c, p, r)
    \/ \E c \in CallIds : CachePut(c, FALSE)
    \/ Tick

SpecSerial == InitSerial /\ [][NextSerial]_vars

(***************************************************************************)
(* SpecStream: one batch stream over a list of at most MaxRows addresses.  *)
(***************************************************************************)
\* the address lists of 1 to MaxRows rows
RowLists == UNION {[1..n -> StreamIPs] : n \in 1..MaxRows}

InitStream == InitWith({Env(KeysGuideOnly, TRUE, 120), Env(KeysGuideOnly, FALSE, NotANumber)}, FALSE)

NextStream ==
    \/ \E rows \in RowLists : OpenExitStream(rows)
    \/ \E rows \in RowLists : OpenManualStream(rows)
    \/ \E c \in CallIds, p \in Providers, r \in TwoResponses : Settle(c, p, r)
    \/ \E c \in CallIds : CachePut(c, FALSE)
    \/ WriteSSE

SpecStream == InitStream /\ [][NextStream]_vars

(***************************************************************************)
(* SpecFaults: one batch stream in which an aggregation may throw, a write *)
(* of an event may reject and the consumer may go away.                    *)
(***************************************************************************)
\* the lists of 1 to MaxRows rows over two addresses
FaultRows == UNION {[1..n -> IPs] : n \in 1..MaxRows}

NextFaults ==
    \/ \E rows \in FaultRows : OpenExitStream(rows)
    \/ \E rows \in FaultRows : OpenManualStream(rows)
    \/ \E c \in CallIds, p \in Providers, r \in TwoResponses : Settle(c, p, r)
    \/ \E c \in CallIds : CachePut(c, FALSE)
    \/ WriteSSE
    \/ \E c \in CallIds : Raise(c)
    \/ RejectSSE
    \/ Disconnect

SpecFaults == InitStream /\ [][NextFaults]_vars

(***************************************************************************)
(* SpecPool: one KeyManager of one to three keys and its callers.          *)
(***************************************************************************)
PoolSizes == 1..3
\* the time between two uses of the pool: past the failure decay and still
\* inside the cooldown, or the cooldown
Gaps == {FAILURE_DECAY + 1, DEFAULT_COOLDOWN}
PoolEnvs == {Env([NoKeys EXCEPT ![PoolOf] = n], FALSE, NotANumber) : n \in PoolSizes}

InitPool == InitWith(PoolEnvs, FALSE)

NextPool ==
    \/ GetNextKey
    \/ \E k \in PoolSizes : MarkSuccess(k)
    \/ \E k \in PoolSizes : MarkFailure(k)
    \/ \E d \in Gaps : Pass(d)

SpecPool == InitPool /\ [][NextPool]_vars

(***************************************************************************)
(* SpecFlights: up to MaxFlights requests in flight over one KeyManager of *)
(* one or two keys.                                                        *)
(***************************************************************************)
FlightEnvs == {Env([NoKeys EXCEPT ![PoolOf] = n], FALSE, NotANumber) : n \in 1..2}

FlightGaps == {FAILURE_DECAY, FAILURE_DECAY + 1}

InitFlights == InitWith(FlightEnvs, FALSE)

NextFlights ==
    \/ \E r \in FlightIds : Acquire(r)
    \/ \E r \in FlightIds : Succeed(r)
    \/ \E r \in FlightIds : Fail(r)
    \/ \E r \in FlightIds : Abandon(r)
    \/ \E d \in FlightGaps : Pass(d)

SpecFlights == InitFlights /\ [][NextFlights]_vars

(***************************************************************************)
(* SpecKeys: aggregations that follow each other over a pool of one to     *)
(* three ipqs keys, from any state of the pool.                            *)
(***************************************************************************)
QuotaError == Response(200, "quota", Undefined)
KeyResponses ==
    {Ok(AsnNumber), Timeout, Malformed, Http(404), Http(429), Http(500), QuotaError}

InitKeys == InitWith(PoolEnvs, TRUE)

NextKeys ==
    \/ \E c \in CallIds : StartCall(c, "ip1", "manual", Undefined, FALSE, TRUE)
    \/ \E c \in CallIds, p \in Providers, r \in KeyResponses : Settle(c, p, r)

SpecKeys == InitKeys /\ [][NextKeys]_vars

(***************************************************************************)
(* SpecAi: concurrent AI analysis requests of both routes for one address, *)
(* the LLM answering in every way, entries expiring as the clock advances. *)
(***************************************************************************)
InitAi ==
    /\ env \in {Env(NoKeys, b, 120) : b \in BOOLEAN}
    /\ now = 1
    /\ kv = [k \in CacheKeys |-> EmptyEntry]
    /\ managers = [p \in KeyedProviders |-> NewKeyManager(0)]
    /\ calls = [c \in CallIds |-> IdleCall]
    /\ stream = NoStream
    /\ pool = NoPool
    /\ ai \in {[NoAi EXCEPT !.llm = b] : b \in BOOLEAN}
    /\ world = NoWorld
    /\ pure = NoPure
    /\ flights = NoFlights

NextAi ==
    \/ \E r \in AiReqs, ip \in AiIPs, route \in {"ai-analysis", "check"},
          data \in {"none", "ok", "hostile"}, getThrows \in BOOLEAN :
           AiAnalysis(r, ip, route, data, getThrows)
    \/ \E r \in AiReqs, a \in LlmAnswers, putThrows \in BOOLEAN : LlmAnswered(r, a, putThrows)
    \/ \E r \in AiReqs : AiRespond(r)
    \/ Tick

SpecAi == InitAi /\ [][NextAi]_vars

(***************************************************************************)
(* SpecWorld: aggregations one after the other, for two addresses, over    *)
(* ip.guide and an ipqs pool of two keys in any state, every provider      *)
(* giving one fixed answer per address; time passes between the runs.      *)
(***************************************************************************)
KeysIpqsPair == [NoKeys EXCEPT !["ipqs"] = 2]
WorldResponses == {Ok(AsnNumber), Http(429)}
Worlds ==
    {[p \in Providers |-> IF p \in {"ipguide", "ipqs"} THEN f[p] ELSE NoWorld[p]] :
        f \in [{"ipguide", "ipqs"} -> [IPs -> WorldResponses]]}

InitWorld ==
    /\ env \in {Env(KeysIpqsPair, b, 120) : b \in BOOLEAN}
    /\ now = 1
    /\ kv = [k \in CacheKeys |-> EmptyEntry]
    /\ managers \in {[p \in KeyedProviders |->
                        IF p = "ipqs" THEN m ELSE NewKeyManager(0)] :
                     m \in PoolStates("ipqs", 2)}
    /\ calls = [c \in CallIds |-> IdleCall]
    /\ stream = NoStream
    /\ pool = NoPool
    /\ ai = NoAi
    /\ world \in Worlds
    /\ pure = NoPure
    /\ flights = NoFlights

NextWorld ==
    \/ \E c \in CallIds, ip \in IPs :
          /\ \A d \in CallIds : ~Busy(d)
          /\ StartCall(c, ip, "manual", Undefined, FALSE, FALSE)
    \/ \E c \in CallIds, p \in Providers : Answer(c, p)
    \/ \E c \in CallIds : CachePut(c, FALSE)
    \/ \E d \in Gaps : Pass(d)

SpecWorld == InitWorld /\ [][NextWorld]_vars

(***************************************************************************)
(* SpecPrepare: prepareExits applied to every list of one to MaxExits      *)
(* exits, and then to what it returned.                                    *)
(***************************************************************************)
InitPrepare ==
    /\ env = Env(NoKeys, FALSE, NotANumber)
    /\ now = 1
    /\ kv = [k \in CacheKeys |-> EmptyEntry]
    /\ managers = [p \in KeyedProviders |-> NewKeyManager(0)]
    /\ calls = [c \in CallIds |-> IdleCall]
    /\ stream = NoStream
    /\ pool = NoPool
    /\ ai = NoAi
    /\ world = NoWorld
    /\ pure \in {[op |-> "exits", exits |-> e] : e \in ExitLists}
    /\ flights = NoFlights

NextPrepare == PrepareExits \/ PrepareAgain

SpecPrepare == InitPrepare /\ [][NextPrepare]_vars

(***************************************************************************)
(* SpecDerive: the IP source and the IP type derived from every merged     *)
(* record of MergedRecords.                                                *)
(***************************************************************************)
InitDerive ==
    /\ env = Env(NoKeys, FALSE, NotANumber)
    /\ now = 1
    /\ kv = [k \in CacheKeys |-> EmptyEntry]
    /\ managers = [p \in KeyedProviders |-> NewKeyManager(0)]
    /\ calls = [c \in CallIds |-> IdleCall]
    /\ stream = NoStream
    /\ pool = NoPool
    /\ ai = NoAi
    /\ world = NoWorld
    /\ pure \in {[op |-> "merged", merged |-> m] : m \in MergedRecords}
    /\ flights = NoFlights

NextDerive == BuildIpSourceInfo \/ BuildIpCheckResult

SpecDerive == InitDerive /\ [][NextDerive]_vars

(***************************************************************************)
(* SpecKeyError: isKeyRelatedError applied to every status of Statuses and *)
(* every response of KeyErrorResponses.                                    *)
(***************************************************************************)
InitKeyError ==
    /\ env = Env(NoKeys, FALSE, NotANumber)
    /\ now = 1
    /\ kv = [k \in CacheKeys |-> EmptyEntry]
    /\ managers = [p \in KeyedProviders |-> NewKeyManager(0)]
    /\ calls = [c \in CallIds |-> IdleCall]
    /\ stream = NoStream
    /\ pool = NoPool
    /\ ai = NoAi
    /\ world = NoWorld
    /\ pure \in {[op |-> "error", status |-> s, response |-> r] :
                    s \in Statuses, r \in KeyErrorResponses}
    /\ flights = NoFlights

NextKeyError == IsKeyRelatedError

SpecKeyError == InitKeyError /\ [][NextKeyError]_vars

(***************************************************************************)
(* pLimit over tasks of any kind: a task is an async function that, once   *)
(* started, resolves or rejects at some later time.  The limiter is the    *)
(* closure of pLimit: concurrency, activeCount and queue; st, starts and   *)
(* waited record, for each task, where it stands, how often it was invoked *)
(* and whether it went through the queue.                                  *)
(***************************************************************************)
MaxTasks == 5
TaskIds == 1..MaxTasks
Concurrencies == {1, 2, API_CONCURRENCY_LIMIT}

\* pLimit(concurrency): the closure before any task
pLimit(concurrency) ==
    [op |-> "limiter", concurrency |-> concurrency, activeCount |-> 0, queue |-> <<>>,
     st |-> [i \in TaskIds |-> "none"], starts |-> [i \in TaskIds |-> 0],
     waited |-> [i \in TaskIds |-> FALSE]]

\* run, up to its await: the count goes up and fn is invoked
runTask(l, i) ==
    [l EXCEPT !.activeCount = @ + 1, !.st[i] = "running", !.starts[i] = @ + 1]

\* a next that takes the head of the queue without running it
nextTask_dropsHead(l) ==
    IF Len(l.queue) > 0
    THEN [l EXCEPT !.activeCount = @ - 1, !.queue = Tail(@)]
    ELSE [l EXCEPT !.activeCount = @ - 1]

\* next: the count goes down and the head of the queue, if any, is run
nextTask(l) ==
    IF Len(l.queue) > 0
    THEN runTask([l EXCEPT !.activeCount = @ - 1, !.queue = Tail(@)], Head(l.queue))
    ELSE [l EXCEPT !.activeCount = @ - 1]

\* the function pLimit returns, called with task i
limitTask(l, i) ==
    IF l.activeCount < l.concurrency
    THEN runTask(l, i)
    ELSE [l EXCEPT !.queue = Append(@, i), !.st[i] = "queued", !.waited[i] = TRUE]

\* some code calls limit(fn) with a task not handed in before (the tasks
\* are numbered in the order of these calls)
Submit(i) ==
    /\ pure.st[i] = "none"
    /\ \A j \in TaskIds : j < i => pure.st[j] # "none"
    /\ pure' = limitTask(pure, i)
    /\ UNCHANGED <<env, now, kv, managers, calls, stream, pool, ai, world, flights>>

\* the promise of fn settles: fulfilled (ok) or rejected
FnSettles(i, ok) ==
    /\ pure.st[i] = "running"
    /\ pure' = [pure EXCEPT !.st[i] = IF ok THEN "fulfilled" ELSE "rejected"]
    /\ UNCHANGED <<env, now, kv, managers, calls, stream, pool, ai, world, flights>>

\* run goes on after its await: the finally block calls next, and the
\* promise that limit returned settles as fn did
Finally(i) ==
    /\ pure.st[i] \in {"fulfilled", "rejected"}
    /\ pure' = nextTask([pure EXCEPT !.st[i] = IF @ = "fulfilled" THEN "resolved" ELSE "thrown"])
    /\ UNCHANGED <<env, now, kv, managers, calls, stream, pool, ai, world, flights>>

InitLimiter ==
    /\ env = Env(NoKeys, FALSE, NotANumber)
    /\ now = 1
    /\ kv = [k \in CacheKeys |-> EmptyEntry]
    /\ managers = [p \in KeyedProviders |-> NewKeyManager(0)]
    /\ calls = [c \in CallIds |-> IdleCall]
    /\ stream = NoStream
    /\ pool = NoPool
    /\ ai = NoAi
    /\ world = NoWorld
    /\ pure \in {pLimit(c) : c \in Concurrencies}
    /\ flights = NoFlights

NextLimiter ==
    \/ \E i \in TaskIds : Submit(i)
    \/ \E i \in TaskIds, ok \in BOOLEAN : FnSettles(i, ok)
    \/ \E i \in TaskIds : Finally(i)

\* SpecLimiter: every started task settles in the end, and a continuation
\* that is ready to run is run (the microtask queue is drained)
SpecLimiter ==
    /\ InitLimiter
    /\ [][NextLimiter]_vars
    /\ WF_vars(\E i \in TaskIds, ok \in BOOLEAN : FnSettles(i, ok))
    /\ WF_vars(\E i \in TaskIds : Finally(i))

(***************************************************************************)
(* The KV fallback of the rate limiter, checkRateLimitKV, for one client   *)
(* key.  Time is counted in ticks of half a second; KV answers every get   *)
(* and put, and a put is visible to the gets that follow it.               *)
(***************************************************************************)
TicksPerSecond == 2
RateLimit == 2
RateWindowSeconds == 2
MaxRequests == 3
MaxRateTime == 7
RequestIds == 1..MaxRequests

\* the value kv.get resolves to when there is no entry
NoCounter == [count |-> 0, windowStart |-> 0, expires |-> 0]
NoRateResult == [allowed |-> FALSE, retryAfter |-> 0, put |-> FALSE, at |-> 0, window |-> 0]

\* kv.get(key, 'json') at time t: an entry past its expirationTtl is gone
getCounter(stored, t) ==
    IF stored.count = 0 \/ t >= stored.expires THEN NoCounter ELSE stored

\* Math.ceil(ticks / TicksPerSecond), the ticks being positive
ceilSeconds(ticks) == (ticks + TicksPerSecond - 1) \div TicksPerSecond

counter(count, windowStart, t, windowSeconds) ==
    [count |-> count, windowStart |-> windowStart,
     expires |-> t + windowSeconds * TicksPerSecond]

\* checkRateLimitKV after its kv.get: what it stores and what it returns,
\* given the entry `data` it has read, the time t of Date.now() and the
\* limit max
checkRateLimitKV(data, t, max, windowSeconds) ==
    IF data.count = 0
    THEN [put |-> TRUE, value |-> counter(1, t, t, windowSeconds),
          allowed |-> TRUE, retryAfter |-> 0]
    ELSE IF t - data.windowStart < windowSeconds * TicksPerSecond
    THEN IF data.count >= max
         THEN [put |-> FALSE, value |-> data, allowed |-> FALSE,
               retryAfter |-> ceilSeconds(data.windowStart
                                          + windowSeconds * TicksPerSecond - t)]
         ELSE [put |-> TRUE,
               value |-> counter(data.count + 1, data.windowStart, t, windowSeconds),
               allowed |-> TRUE, retryAfter |-> 0]
    ELSE [put |-> TRUE, value |-> counter(1, t, t, windowSeconds),
          allowed |-> TRUE, retryAfter |-> 0]

\* request r reaches the middleware: kv.get is answered
RateGet(r) ==
    /\ pure.reqs[r].pc = "idle"
    /\ \A q \in RequestIds : q < r => pure.reqs[q].pc # "idle"
    /\ pure' = [pure EXCEPT !.reqs[r].pc = "read",
                            !.reqs[r].data = getCounter(pure.stored, now)]
    /\ UNCHANGED <<env, now, kv, managers, calls, stream, pool, ai, world, flights>>

\* request r goes on after its kv.get: it compares, puts and returns
RateDecide(r) ==
    /\ pure.reqs[r].pc = "read"
    /\ LET d == checkRateLimitKV(pure.reqs[r].data, now, RateLimit, RateWindowSeconds)
       IN  pure' = [pure EXCEPT
                       !.stored = IF d.put THEN d.value ELSE @,
                       !.reqs[r].pc = "done",
                       !.reqs[r].result =
                           [allowed |-> d.allowed, retryAfter |-> d.retryAfter,
                            put |-> d.put, at |-> now, window |-> d.value.windowStart]]
    /\ UNCHANGED <<env, now, kv, managers, calls, stream, pool, ai, world, flights>>

\* half a second passes
RateTick ==
    /\ pure.op = "ratelimit"
    /\ now < MaxRateTime
    /\ now' = now + 1
    /\ UNCHANGED <<env, kv, managers, calls, stream, pool, ai, world, pure, flights>>

InitRate ==
    /\ env = Env(NoKeys, TRUE, NotANumber)
    /\ now = 1
    /\ kv = [k \in CacheKeys |-> EmptyEntry]
    /\ managers = [p \in KeyedProviders |-> NewKeyManager(0)]
    /\ calls = [c \in CallIds |-> IdleCall]
    /\ stream = NoStream
    /\ pool = NoPool
    /\ ai = NoAi
    /\ world = NoWorld
    /\ pure = [op |-> "ratelimit", stored |-> NoCounter,
               reqs |-> [r \in RequestIds |->
                            [pc |-> "idle", data |-> NoCounter, result |-> NoRateResult]]]
    /\ flights = NoFlights

NextRate ==
    \/ \E r \in RequestIds : RateGet(r)
    \/ \E r \in RequestIds : RateDecide(r)
    \/ RateTick

SpecRate == InitRate /\ [][NextRate]_vars


(***************************************************************************)
(* SpecCancel: one batch stream whose consumer may go away.  Every         *)
(* outbound request is answered or times out and every KV write completes. *)
(***************************************************************************)
CancelRows == {rows \in RowLists : Len(rows) = 2}

InitCancel == InitWith({Env(KeysGuideOnly, TRUE, 120)}, FALSE)

NextCancel ==
    \/ \E rows \in CancelRows : OpenExitStream(rows)
    \/ \E rows \in CancelRows : OpenManualStream(rows)
    \/ \E c \in CallIds, p \in Providers, r \in TwoResponses : Settle(c, p, r)
    \/ \E c \in CallIds : CachePut(c, FALSE)
    \/ WriteSSE
    \/ Disconnect

SpecCancel ==
    /\ InitCancel
    /\ [][NextCancel]_vars
    /\ WF_vars(\E c \in CallIds, p \in Providers, r \in TwoResponses : Settle(c, p, r))
    /\ WF_vars(\E c \in CallIds : CachePut(c, FALSE))

(***************************************************************************)
(* Properties of one aggregation.                                          *)
(***************************************************************************)
Attempted(c) == {p \in Providers : calls[c].tasks[p].st # "none"}
Failed(c) ==
    {p \in Attempted(c) :
        \/ calls[c].tasks[p].st = "rejected"
        \/ calls[c].tasks[p].st = "fulfilled" /\ calls[c].tasks[p].result.status = "error"}
Sources(results) == [i \in 1..Len(results) |-> results[i].source]
Count(seq, x) == Cardinality({i \in 1..Len(seq) : seq[i] = x})
Missed(c) == calls[c].pc = "done" /\ calls[c].read # "hit"

\* C1: a call of checkSingleIpWithCache that has ended has returned a result,
\* it has not thrown, and every provider that failed in it (timeout, HTTP
\* error, malformed body, no usable key) stands exactly once in errors.
C1_AlwaysReturns ==
    \A c \in CallIds :
        calls[c].pc = "done" =>
            /\ calls[c].outcome = "returned"
            /\ \A p \in Failed(c) : Count(Sources(calls[c].result.errors), p) = 1

C1_Witness ==
    /\ calls[1].pc = "done"
    /\ calls[1].outcome = "returned"
    /\ calls[1].tasks["ipguide"].result.error.kind = "timeout"
    /\ calls[1].tasks["ipqs"].result.error.kind = "http"
    /\ calls[1].tasks["ipqs"].attempt = 1
    /\ Len(calls[1].result.errors) = 2

YieldedAsn(c) ==
    LET m1 == mergeResults(SuccessfulOf(calls[c].tasks, Wave1Apis(env)))
    IN  \/ Truthy(calls[c].asn)
        \/ \E k \in {"asn", "ASN", "as"} :
              IsStringOrNumber(Field(m1, k)) /\ Truthy(Field(m1, k))

C7_Wave2Iff ==
    \A c \in CallIds :
        Missed(c) =>
            \A p \in Providers :
                RequiresASN(p) => (p \in Attempted(c) <=> Enabled(env, p) /\ YieldedAsn(c))

C7_Witness ==
    /\ Missed(1)
    /\ calls[1].asn = Undefined
    /\ calls[1].tasks["ipqs"].result.status = "success"
    /\ calls[1].tasks["cloudflare_asn"].st = "fulfilled"

\* C8: at no moment does one aggregation have more than four provider
\* requests in flight.
InFlightRequests(c) == {p \in Providers : calls[c].tasks[p].st = "inflight"}

C8_AtMostFour ==
    \A c \in CallIds : Cardinality(InFlightRequests(c)) <= API_CONCURRENCY_LIMIT

C8_Witness ==
    /\ Cardinality(InFlightRequests(1)) = API_CONCURRENCY_LIMIT
    /\ Len(calls[1].queue) = 1

(***************************************************************************)
(* Properties of the merged-result cache.                                  *)
(***************************************************************************)
JsonEqual(a, b) ==
    /\ JsonObject(a.merged) = JsonObject(b.merged)
    /\ JsonResults(a.successful) = JsonResults(b.successful)
    /\ JsonResults(a.errors) = JsonResults(b.errors)

\* call d began after call a for the same address had returned
Later(a, d) ==
    /\ calls[d].pc = "done"
    /\ a \in calls[d].after
    /\ calls[a].ip = calls[d].ip

\* C3 as stated: a call for an address that began after another call for it
\* had returned, and before the lifetime of that call's bundle ran out,
\* returns the same merged, successful and errors and sends no request.
C3_Original ==
    \A a, d \in CallIds :
        Later(a, d) /\ calls[d].startedAt < calls[a].expires =>
            /\ calls[d].requests = 0
            /\ JsonEqual(calls[a].result, calls[d].result)

\* the call c begins in this step: its cache read happens now
Begins(c) == calls[c].pc = "idle" /\ calls'[c].pc # "idle"
StoredFor(c) == kv[getMergedIpCacheKey(calls'[c].ip)]
Fresh(entry) == entry.present /\ now < entry.expires

\* C3: a call whose cache read finds an unexpired bundle stored for its
\* address returns at once, with no request sent, the merged, successful
\* and errors of the call that wrote the bundle last (as JSON renders
\* them); a call whose read finds no such bundle sends requests.
C3_ServedFromStore ==
    [][\A c \in CallIds :
          Begins(c) =>
              IF Fresh(StoredFor(c))
              THEN /\ calls'[c].pc = "done"
                   /\ calls'[c].requests = 0
                   /\ StoredFor(c).writer \in DoneCalls
                   /\ calls[StoredFor(c).writer].ip = calls'[c].ip
                   /\ JsonEqual(calls[StoredFor(c).writer].result, calls'[c].result)
              ELSE calls'[c].requests >= 1]_vars

C3_Witness ==
    \E a, d \in CallIds :
        /\ Later(a, d)
        /\ calls[d].read = "hit"
        /\ calls[d].servedBy = a
        /\ calls[d].startedAt > calls[a].startedAt
        /\ calls[d].result.successful # <<>>

AllFailed(a) ==
    /\ calls[a].read # "hit"
    /\ calls[a].result.successful = <<>>
    /\ calls[a].result.errors # <<>>

\* C4 as stated: a call that began within 60 s after an aggregation for the
\* same address in which every provider failed sends no request and returns
\* a record with empty meta.sources and non-empty meta.apiErrors.
C4_Original ==
    \A a, d \in CallIds :
        Later(a, d) /\ AllFailed(a) /\ calls[d].startedAt < calls[a].expires =>
            /\ calls[d].requests = 0
            /\ calls[d].meta.sources = <<>>
            /\ calls[d].meta.apiErrors # <<>>

\* C4: a negative bundle is stored for 60 s; a call whose cache read finds
\* it unexpired sends no request and returns a record whose
\* meta.apiErrors is non-empty and whose meta.sources names no provider (it
\* is empty, or holds cloudflare_native alone when the record is built around
\* an edge snapshot); a call whose read comes once the bundle has expired
\* sends requests.
C4_NegativeEntry ==
    [][\A c \in CallIds :
          Begins(c) /\ StoredFor(c).present /\ StoredFor(c).value.isNegativeCache =>
              /\ StoredFor(c).ttl = 60
              /\ IF now < StoredFor(c).expires
                 THEN /\ calls'[c].requests = 0
                      /\ calls'[c].pc = "done"
                      /\ calls'[c].meta.apiErrors # <<>>
                      /\ calls'[c].meta.sources =
                            IF HasCfData(calls'[c].route)
                            THEN <<"cloudflare_native">> ELSE <<>>
                 ELSE calls'[c].requests >= 1]_vars

C4_Witness ==
    \E a, d \in CallIds :
        /\ Later(a, d)
        /\ AllFailed(a)
        /\ calls[d].read = "hit"
        /\ calls[d].servedBy = a
        /\ calls[d].route = "exit"
        /\ calls[d].meta.sources = <<"cloudflare_native">>

\* C5 as stated: a result served from the cache has meta.cached true and
\* meta.cachedApiCount equal to meta.totalApiCount; a result of a miss has
\* meta.cached false and meta.cachedApiCount 0.
C5_Original ==
    \A c \in CallIds :
        calls[c].pc = "done" =>
            IF calls[c].read = "hit"
            THEN calls[c].meta.cached /\ calls[c].meta.cachedApiCount = calls[c].meta.totalApiCount
            ELSE ~calls[c].meta.cached /\ calls[c].meta.cachedApiCount = 0

\* C6: no failure of the cache ends a call: a read that throws, and a missing
\* namespace, are followed by the fan-out of a miss, and a call whose write
\* threw returns what it would have returned had the write succeeded.
C6_FailOpen ==
    \A c \in CallIds :
        calls[c].pc = "done" =>
            /\ calls[c].outcome = "returned"
            /\ calls[c].read \in {"threw", "nokv"} =>
                  /\ ~calls[c].result.partiallyFromCache
                  /\ Range(Wave1Apis(env)) \subseteq Attempted(c)
            /\ calls[c].put \in {"threw", "stored"} =>
                  LET successful == SuccessfulOf(calls[c].tasks, Wave1Apis(env))
                                    \o SuccessfulOf(calls[c].tasks, Wave2Apis(env))
                      errors == ErrorsOf(calls[c].tasks, Wave1Apis(env))
                                \o ErrorsOf(calls[c].tasks, Wave2Apis(env))
                  IN  /\ calls[c].result.successful = successful
                      /\ calls[c].result.errors = errors
                      /\ calls[c].result.merged = mergeResults(successful)
            /\ calls[c].put = "threw" => ~kv[getMergedIpCacheKey(calls[c].ip)].present

C6_Witness ==
    /\ calls[1].pc = "done"
    /\ calls[1].outcome = "returned"
    /\ calls[1].read = "threw"
    /\ calls[1].put = "threw"
    /\ calls[1].result.successful # <<>>

(***************************************************************************)
(* Properties of the batch streams.                                        *)
(***************************************************************************)
UniqueIps == Range(stream.rows)
PerIpEvents == SelectSeq(stream.events, LAMBDA ev : ev.type # "done")
AggregatorRuns == {c \in CallIds : calls[c].pc # "idle"}

\* C9 as stated: a batch stream that has ended has run the aggregator once
\* for every distinct address of its input and has emitted one result or
\* item-error event for every distinct address.
C9_Original ==
    stream.pc = "closed" =>
        /\ Cardinality(AggregatorRuns) = Cardinality(UniqueIps)
        /\ Len(PerIpEvents) = Cardinality(UniqueIps)
        /\ \A ip \in UniqueIps : Count([i \in 1..Len(PerIpEvents) |-> PerIpEvents[i].ip], ip) = 1

\* C10 as stated: progress.total of every event of a batch stream is the
\* number of distinct addresses of the input, progress.completed of the k-th
\* per-address event is k, and the done event carries completed = total =
\* the number of per-address events emitted.
C10_Original ==
    /\ \A i \in 1..Len(stream.events) :
          stream.events[i].progress.total = Cardinality(UniqueIps)
    /\ \A k \in 1..Len(PerIpEvents) : PerIpEvents[k].progress.completed = k
    /\ stream.pc = "closed" =>
          LET done == stream.events[Len(stream.events)]
          IN  /\ done.type = "done"
              /\ done.progress.completed = done.progress.total
              /\ done.progress.total = Len(PerIpEvents)

\* the record whose aggregation the k-th per-address event reports, and the
\* place of record d in the order in which the aggregations settled
RecordOf(k) ==
    IF stream.route = "exit"
    THEN CHOOSE i \in 1..Len(stream.pendingItems) :
            stream.pendingItems[i].ip = PerIpEvents[k].ip
    ELSE k
Place(d) == CHOOSE i \in 1..Len(stream.order) : stream.order[i] = d

\* C11 as stated, first half: while a batch stream is open the aggregation of
\* every distinct address of its input has been started.
C11_AllStarted ==
    stream.pc \in {"waiting", "writing"} =>
        Cardinality(AggregatorRuns) >= Cardinality(UniqueIps)

\* C11 as stated, second half: the per-address events come in the order in
\* which the aggregations completed.
C11_CompletionOrder ==
    \A k1, k2 \in 1..Len(PerIpEvents) :
        k1 < k2 => Place(RecordOf(k1)) < Place(RecordOf(k2))

\* C11 as stated: in a batch stream of either endpoint the aggregations of
\* all distinct addresses run in parallel, none waiting for another to
\* finish, and the per-address events are emitted in completion order.
C11_Original == C11_AllStarted /\ C11_CompletionOrder

(***************************************************************************)
(* Properties of the batch streams under faults.                           *)
(***************************************************************************)
\* the events that report one address, and the terminal events
ItemEvents ==
    SelectSeq(stream.events, LAMBDA ev : ev.type = "result" \/ ev.code = "ITEM_FAILED")
Terminal(ev) == ev.type = "done" \/ ev.code = "STREAM_ERROR"
LastEvent == stream.events[Len(stream.events)]

Aborted == Len(stream.events) > 0 /\ LastEvent.code = "STREAM_ERROR"

\* the handler has emitted the event of the aggregation in record c
Reported(c) ==
    /\ ~Aborted
    /\ IF stream.route = "exit"
       THEN c <= Len(stream.pendingItems) /\ stream.pendingItems[c].resolved
       ELSE \/ c < stream.index /\ c <= Len(stream.rows)
            \/ c = stream.index /\ c <= Len(stream.rows)
                 /\ stream.pc \in {"writing", "closed"}

\* the aggregation in record c threw and an ITEM_FAILED event names its address
ItemFailedFor(c) ==
    \E k \in 1..Len(stream.events) :
        /\ stream.events[k].type = "error"
        /\ stream.events[k].code = "ITEM_FAILED"
        /\ stream.events[k].ip = calls[c].ip

\* C12 as stated: when the aggregation of one address of a batch stream
\* throws, the stream emits for that address an event of type "error" with
\* code ITEM_FAILED, and goes on: the other addresses get their events and
\* the stream ends with done.  For both endpoints.
C12_Original ==
    /\ \A c \in CallIds :
          calls[c].outcome = "thrown" /\ Reported(c) => ItemFailedFor(c)
    /\ (stream.pc = "closed" /\ ~Aborted) =>
          /\ LastEvent.type = "done"
          /\ \A ip \in UniqueIps : \E k \in 1..Len(ItemEvents) : ItemEvents[k].ip = ip

\* C13: at most one terminal event (done or STREAM_ERROR) is ever emitted
\* and nothing follows it; a stream that has ended ends with one; done comes
\* only after every distinct address of the input has had its event.
C13_OneTerminalEvent ==
    /\ \A k \in 1..Len(stream.events) :
          Terminal(stream.events[k]) => k = Len(stream.events) /\ stream.pc = "closed"
    /\ stream.pc = "closed" =>
          /\ Len(stream.events) > 0
          /\ Terminal(LastEvent)
          /\ LastEvent.type = "done" =>
                \A ip \in UniqueIps : \E k \in 1..Len(ItemEvents) : ItemEvents[k].ip = ip

\* a stream over two addresses that aborted after the event of the first
C13_Witness ==
    /\ stream.pc = "closed"
    /\ Cardinality(UniqueIps) = 2
    /\ Len(stream.events) = 2
    /\ stream.events[1].type = "result"
    /\ LastEvent.code = "STREAM_ERROR"

\* what a request for the address of call c would read from the cache now
WouldRead(c) == getCachedMergedIpData(env, kv, calls[c].ip, now, FALSE).how

\* after the consumer has gone: the events emitted from then on are beyond
\* the ones it received, and an aggregation that was in flight is never
\* given up and, once it has returned, has written its bundle
AfterDisconnect ==
    ~stream.connected =>
        /\ stream.delivered <= Len(stream.events)
        /\ \A c \in stream.cut :
              /\ calls[c].pc \in {"wave1", "wave2", "writing", "done"}
              /\ (calls[c].outcome = "returned" /\ env.kvBound) =>
                    /\ calls[c].put = "stored"
                    /\ WouldRead(c) = "hit"

Pool == managers[PoolOf]
Healthy(m) == {k \in 1..m.n : m.states[k].isHealthy}
InCooldown(m, k, t) ==
    ~m.states[k].isHealthy /\ t - m.states[k].lastFailure < DEFAULT_COOLDOWN
\* the last failure of key k of the manager m lies a cooldown or more before t
CooledDown(m, k, t) ==
    m.states[k].lastFailure # 0 /\ t - m.states[k].lastFailure >= DEFAULT_COOLDOWN

\* C15 as stated: for a pool of any size N >= 1, getNextKey returns a key
\* that is healthy when it is returned, or no key; it returns no key
\* exactly when no key is healthy after the cooldown sweep; a key that is
\* unhealthy and inside its cooldown is never handed out.
C15_Original ==
    pool.called =>
        /\ pool.key # NoKey => Pool.states[pool.key].isHealthy
        /\ pool.key = NoKey <=>
              Healthy(cleanupExpiredCooldowns(pool.before, pool.at)) = {}
        /\ pool.key # NoKey => ~InCooldown(pool.before, pool.key, pool.at)

\* the number of places from key k on to key j, going round a pool of n keys
Ahead(k, j, n) == IF j > k THEN j - k ELSE j - k + n
\* the healthy key that follows key k in cyclic index order
CyclicNext(H, n, k) == CHOOSE j \in H : \A i \in H : Ahead(k, j, n) <= Ahead(k, i, n)

\* C16: while nothing but getNextKey touches a pool that has H >= 1 healthy
\* keys, the calls of getNextKey return healthy keys only, each the healthy
\* key that follows the one before in cyclic index order, so that any H
\* calls in a row return every healthy key exactly once.
C16_RoundRobin ==
    LET H == Healthy(Pool)
        r == pool.run
        h == Cardinality(H)
    IN  h >= 1 =>
            /\ \A i \in 1..Len(r) : r[i] \in H
            /\ \A i \in 1..(Len(r) - 1) : r[i + 1] = CyclicNext(H, Pool.n, r[i])
            /\ \A i \in 1..(Len(r) - h + 1) : {r[j] : j \in i..(i + h - 1)} = H

\* the pool [A, B, C] with A unhealthy: four calls in a row gave B, C, B, C
C16_Witness ==
    /\ Pool.n = 3
    /\ Healthy(Pool) = {2, 3}
    /\ pool.run = <<2, 3, 2, 3>>

\* C17 as stated: when getNextKey is called a cooldown or more after the
\* last failure of a key, that key is healthy with failureCount = 0 after
\* the call; for every key with a recorded failure and every pool size.
C17_Original ==
    pool.called =>
        \A k \in 1..Pool.n :
            CooledDown(pool.before, k, pool.at) =>
                Pool.states[k].isHealthy /\ Pool.states[k].failureCount = 0


(***************************************************************************)
(* Properties of a keyed provider call over a pool that is used up.        *)
(***************************************************************************)
KeyedTask(c) == calls[c].tasks[PoolOf]
\* every key of the manager m is unhealthy and inside its cooldown at time t
AllCooling(m, t) == m.n >= 1 /\ \A k \in 1..m.n : InCooldown(m, k, t)

\* C18 as stated: a call that begins while every key of the pool is
\* unhealthy and inside its cooldown issues no outbound request to the
\* provider and gets a result of status error, for a pool of any size, the
\* pool of one key included.
C18_Original ==
    [][\A c \in CallIds :
          Begins(c) /\ AllCooling(Pool, now) =>
              /\ calls'[c].tasks[PoolOf].st = "fulfilled"
              /\ calls'[c].tasks[PoolOf].result.status = "error"]_vars

\* a failure after which the loop goes on to the next key
Retryable(msg) ==
    /\ msg.kind \in {"http", "api_error"}
    /\ isKeyRelatedError(msg.status, msg.phrase) \/ msg.status >= 500
\* the provider call made at least one attempt and left its loop at the
\* bottom: every attempt failed with a retryable failure
Exhausted(task) ==
    /\ task.st = "fulfilled"
    /\ task.key # NoKey
    /\ task.result.status = "error"
    /\ \/ Retryable(task.result.error)
       \/ task.result.error.kind \in {"no_available_key", "all_keys_exhausted"}

\* C19 as stated: a keyed provider call all of whose attempts failed with
\* retryable failures yields a result of status error whose message holds
\* the text "All API keys exhausted".
C19_Original ==
    \A c \in CallIds :
        Exhausted(KeyedTask(c)) =>
            KeyedTask(c).result.error.kind = "all_keys_exhausted"


(***************************************************************************)
(* Properties of the AI analysis cache.                                    *)
(***************************************************************************)
\* a reasoning that may be kept: not empty, not a failure text
Sound(value) ==
    /\ value.reasoning # <<>>
    /\ Head(value.reasoning) # FailedPrefix
    /\ value.reasoning # <<Unavailable>>

\* C20 as stated: the entry v1:ai:analysis:<ip> is absent or holds a result
\* whose reasoning is a non-empty text that neither starts with "AI Analysis
\* Failed" nor is the "temporarily unavailable" text.
C20_Original ==
    \A k \in AiKeys : ai.store[k].present => Sound(ai.store[k].value)


(***************************************************************************)
(* Properties of analyzeWithLLM.                                           *)
(***************************************************************************)
\* the request r has been answered after the LLM endpoint failed
FailedAnswer(r) == ai.reqs[r].pc = "done" /\ ai.reqs[r].failure # "none"

\* C21: when the LLM endpoint fails (transport failure or timeout, non-2xx
\* status, unparsable body), analyzeWithLLM returns a result whose reasoning
\* is "AI Analysis Failed: " followed by the message and whose debug.error
\* is the message, and the request is answered with status 200, not with an
\* HTTP error.
C21_NeverPropagates ==
    \A r \in AiReqs :
        FailedAnswer(r) =>
            /\ ai.reqs[r].status = 200
            /\ ai.reqs[r].result.reasoning = <<FailedPrefix, ai.reqs[r].failure>>
            /\ ai.reqs[r].result.debug.error = ai.reqs[r].failure

\* a request of /api/ai-analysis has been answered after the LLM endpoint
\* returned a status that is not 2xx
C21_Witness ==
    \E r \in AiReqs :
        /\ FailedAnswer(r)
        /\ ai.reqs[r].route = "ai-analysis"
        /\ ai.reqs[r].failure = "LLM API error"
        /\ ai.reqs[r].status = 200


(***************************************************************************)
(* Determinism of the pipeline.                                            *)
(***************************************************************************)
\* the merged record of a finished run as its response carries it
MergedOf(c) == JsonObject(calls[c].result.merged)
\* c and d are two finished runs for the same address
SameInput(c, d) ==
    /\ calls[c].pc = "done" /\ calls[d].pc = "done"
    /\ calls[c].ip = calls[d].ip

\* C22 as stated: with the answer of every provider fixed per address, two
\* runs for the same address have the same merged record, whatever the
\* order in which the requests of a wave completed and whichever key served.
C22_Original ==
    \A c, d \in CallIds : SameInput(c, d) => MergedOf(c) = MergedOf(d)

\* the run that asked the providers for what run c returned: c itself, or
\* the run that wrote the cache entry c was served from
Origin(c) == IF calls[c].read = "hit" THEN calls[c].servedBy ELSE c
\* a provider call behind the record of run c ended without a request, its
\* pool having no healthy key to give
Skipped(c) ==
    \E p \in Providers :
        /\ calls[Origin(c)].tasks[p].st = "fulfilled"
        /\ calls[Origin(c)].tasks[p].result.error.kind = "no_available_key"
\* the run c asked the providers itself
Fetched(c) == calls[c].pc = "done" /\ calls[c].read # "hit"

\* C22: with the answer of every provider fixed per address, two runs for
\* the same address have the same merged record, whatever the order in
\* which the requests of a wave completed and whichever key served them,
\* unless the record of one of them (fetched by the run, or read from the
\* cache) was built while a provider was left out for want of a healthy key.
C22_Deterministic ==
    \A c, d \in CallIds :
        SameInput(c, d) /\ ~Skipped(c) /\ ~Skipped(d) => MergedOf(c) = MergedOf(d)

\* two runs for one address have fetched a record from ipqs, the first
\* through key 1 and the second through key 2
C22_Witness ==
    \E c, d \in CallIds :
        /\ SameInput(c, d) /\ Fetched(c) /\ Fetched(d)
        /\ calls[c].tasks["ipqs"].key = 1 /\ calls[d].tasks["ipqs"].key = 2
        /\ calls[c].tasks["ipqs"].result.status = "success"
        /\ calls[d].tasks["ipqs"].result.status = "success"
        /\ "asn" \in DOMAIN MergedOf(c)


(***************************************************************************)
(* Properties of prepareExits.                                             *)
(***************************************************************************)
\* the weight the ordering of exit types gives to t, unknown types last
WeightOf(t) == IF t \in DOMAIN EXIT_TYPE_ORDER THEN EXIT_TYPE_ORDER[t] ELSE UnknownOrder
\* the item a does not come after the item b: by weight, then by exitType
NotAfter(a, b) ==
    \/ WeightOf(a.exitType) < WeightOf(b.exitType)
    \/ /\ WeightOf(a.exitType) = WeightOf(b.exitType)
       /\ rankOf(a.exitType) <= rankOf(b.exitType)
AddressesOf(list) == {list[i].cfData.ip : i \in 1..Len(list)}
Prepared == pure.op \in {"prepared", "again"}
\* prepareExits has met an exit type whose weight is not a number
Inherited(list) == \E i \in 1..Len(list) : list[i].exitType \in InheritedNames

\* C23 as stated: in the ipList prepareExits returns no address occurs
\* twice, the entries are in ascending order of exit-type weight (unknown
\* types last) and, within a weight, of exitType, every address of the
\* input occurs, and uniqueIpCount is the length of ipList.
C23_Original ==
    Prepared =>
        LET l == pure.out.ipList
        IN  /\ \A i, j \in 1..Len(l) : l[i].ip = l[j].ip => i = j
            /\ \A i, j \in 1..Len(l) : i < j => NotAfter(l[i], l[j])
            /\ {l[i].ip : i \in 1..Len(l)} = AddressesOf(pure.input)
            /\ pure.out.uniqueIpCount = Len(l)

SourceRank(source) ==
    CASE source = "IPQS" -> 1
      [] source = "AbuseIPDB" -> 2
      [] source = "IP2Location" -> 3
      [] source = "IPInfo Hosting" -> 4

\* the details whose vote is counted
Counted(d) == {i \in DOMAIN d : d[i].normalizedType # "unknown"}

CategoriesOf(d) == {d[i].normalizedType : i \in Counted(d)}

VotesFor(d, t) == Cardinality({i \in Counted(d) : d[i].normalizedType = t})

FirstReached(d, t) ==
    CHOOSE i \in DOMAIN d :
        d[i].normalizedType = t /\ \A j \in 1..(i - 1) : d[j].normalizedType # t

\* C25: the type details come in the order IPQS, AbuseIPDB, IP2Location,
\* ipinfo hosting; votes for 'unknown' are not counted; the voted type is a
\* category with the most votes and, among the categories with as many votes,
\* the one reached first in that order; with no counted vote it is 'unknown'.
C25_Vote ==
    pure.op = "built" =>
        LET d == pure.summary.ipType.sources
            w == pure.summary.ipType.raw
        IN  /\ \A i, j \in DOMAIN d : i < j => SourceRank(d[i].source) < SourceRank(d[j].source)
            /\ IF Counted(d) = {} THEN w = "unknown"
               ELSE /\ w \in CategoriesOf(d)
                    /\ \A t \in CategoriesOf(d) :
                           /\ VotesFor(d, t) <= VotesFor(d, w)
                           /\ (t # w /\ VotesFor(d, t) = VotesFor(d, w))
                                  => FirstReached(d, w) < FirstReached(d, t)

\* two categories tie and one source voted 'unknown'
C25_Witness ==
    /\ pure.op = "built"
    /\ LET d == pure.summary.ipType.sources
           w == pure.summary.ipType.raw
       IN  /\ \E t \in CategoriesOf(d) : t # w /\ VotesFor(d, t) = VotesFor(d, w)
           /\ \E i \in DOMAIN d : d[i].normalizedType = "unknown"

\* a provider reported a type that normalizes to a category
Contributed(m) ==
    \/ \E v \in {m.connection_type, m.usageType, m.ip2location_usage} :
           normalizeIpType(v) # "unknown"
    \/ m.ipinfo_hosting = "true"

\* the same, but for a connection_type that holds 'Premium', which is not
\* taken as a type detail
ContributedVote(m) ==
    \/ normalizeIpType(m.connection_type) # "unknown"
           /\ ~includes(m.connection_type.s, <<"Premium">>)
    \/ \E v \in {m.usageType, m.ip2location_usage} : normalizeIpType(v) # "unknown"
    \/ m.ipinfo_hosting = "true"

\* a provider reported a type string that is taken as a type detail
Supplied(m) ==
    \/ nonEmptyString(m.connection_type) /\ ~includes(m.connection_type.s, <<"Premium">>)
    \/ \E v \in {m.usageType, m.ip2location_usage} : nonEmptyString(v)
    \/ m.ipinfo_hosting = "true"

\* C26 as stated: the derived type is 'unknown' exactly if no provider
\* contributed a type that normalizes to a category, and then the sources of
\* the type are the empty list.
C26_Original ==
    pure.op = "built" =>
        /\ pure.summary.ipType.raw = "unknown" <=> ~Contributed(pure.merged)
        /\ pure.summary.ipType.raw = "unknown" => pure.summary.ipType.sources = <<>>

\* C26: the derived type is 'unknown' exactly if no type detail normalizes
\* to a category (a connection_type holding 'Premium' is no type detail);
\* then every source listed has the normalized type 'unknown', and the list
\* is empty exactly if no provider supplied a type detail.
C26_UnknownType ==
    pure.op = "built" =>
        LET d == pure.summary.ipType.sources
            w == pure.summary.ipType.raw
        IN  /\ w = "unknown" <=> ~ContributedVote(pure.merged)
            /\ w = "unknown" => \A i \in DOMAIN d : d[i].normalizedType = "unknown"
            /\ d = <<>> <=> ~Supplied(pure.merged)

\* the type is 'unknown' and a source is listed
C26_Witness ==
    /\ pure.op = "built"
    /\ pure.summary.ipType.raw = "unknown"
    /\ pure.summary.ipType.sources # <<>>

\* C27: risk.isHosting is true exactly if the voted type is datacenter, or
\* ipinfo_hosting is true, or one of connection_type, usageType and
\* ip2location_usage normalizes to datacenter.
C27_Hosting ==
    pure.op = "built" =>
        (pure.summary.risk.isHosting <=>
            \/ pure.summary.ipType.raw = "datacenter"
            \/ pure.merged.ipinfo_hosting = "true"
            \/ \E v \in {pure.merged.connection_type, pure.merged.usageType,
                         pure.merged.ip2location_usage} :
                   normalizeIpType(v) = "datacenter")

\* hosting by a raw type string alone: another category won the vote
C27_Witness ==
    /\ pure.op = "built"
    /\ pure.summary.risk.isHosting
    /\ pure.summary.ipType.raw \notin {"datacenter", "unknown"}
    /\ pure.merged.ipinfo_hosting # "true"

GeoFields(m) ==
    {m.ip2location_country_code, m.countryCode, m.country_code, m.ipinfo_country}

\* C28: isNative is true only if geoCountry and registryCountry are both
\* present and equal, false only if both are present and differ, and null
\* exactly if one of them is missing; both are upper case, and present
\* exactly if the merged record holds a country of their kind; the reason
\* of a false judgment names both codes.
C28_Native ==
    pure.op = "built" =>
        LET s == pure.summary.ipSource
            g == s.geoCountry
            r == s.registryCountry
        IN  /\ s.isNative \in {"true", "false", Null}
            /\ s.isNative = "true" => g # Null /\ r # Null /\ g = r
            /\ s.isNative = "false" =>
                   /\ g # Null /\ r # Null /\ g # r
                   /\ includes(s.reason, <<g>>) /\ includes(s.reason, <<r>>)
            /\ s.isNative = Null <=> (g = Null \/ r = Null)
            /\ g = Null <=> \A v \in GeoFields(pure.merged) : ~Truthy(v)
            /\ r = Null <=> ~Truthy(pure.merged.ipguide_asn_country)
            /\ g # Null => upperCode(g) = g /\ \E v \in GeoFields(pure.merged) : g = upperCode(v)
            /\ r # Null => r = upperCode(pure.merged.ipguide_asn_country)

\* a lower-case location code equals the registry code
C28_Witness ==
    /\ pure.op = "built"
    /\ pure.summary.ipSource.isNative = "true"
    /\ pure.merged.ip2location_country_code = "us"

(***************************************************************************)
(* C29-C30: markFailure and markSuccess, called by requests in flight      *)
(* (SpecFlights).                                                          *)
(***************************************************************************)
\* the state of the marked key before and after the last call
KeyBefore == flights.before.states[flights.key]

KeyAfter == managers[PoolOf].states[flights.key]

\* the previous failure of the key is more than FAILURE_DECAY old
Decayed == KeyBefore.lastFailure # 0 /\ flights.at - KeyBefore.lastFailure > FAILURE_DECAY

\* C29: markFailure sets lastFailure to the current time; it counts the
\* failure, restarting the count at 1 if the previous failure is more than
\* FAILURE_DECAY old; it makes a healthy key unhealthy exactly if the count
\* reaches 2, which is the second failure with the first at most
\* FAILURE_DECAY earlier, and never if the previous failure is older.
C29_MarkFailure ==
    flights.op = "markFailure" =>
        /\ KeyAfter.lastFailure = flights.at
        /\ KeyAfter.failureCount = (IF Decayed THEN 1 ELSE KeyBefore.failureCount + 1)
        /\ ~KeyAfter.isHealthy <=> (~KeyBefore.isHealthy \/ KeyAfter.failureCount >= 2)
        /\ (KeyBefore.isHealthy /\ ~KeyAfter.isHealthy) <=>
               (KeyBefore.isHealthy /\ KeyAfter.failureCount = 2)
        /\ (KeyBefore.isHealthy /\ ~KeyAfter.isHealthy) =>
               /\ KeyBefore.failureCount = 1
               /\ flights.at - KeyBefore.lastFailure <= FAILURE_DECAY
        /\ (KeyBefore.isHealthy /\ Decayed) => KeyAfter.isHealthy

\* a second failure FAILURE_DECAY after the first makes the key unhealthy
C29_Witness ==
    /\ flights.op = "markFailure"
    /\ KeyBefore.isHealthy /\ ~KeyAfter.isHealthy
    /\ flights.at - KeyBefore.lastFailure = FAILURE_DECAY

\* C30: markSuccess adds 1 to the successCount of the key and, if its
\* failureCount was above 0, resets it to 0 and makes the key healthy; it
\* changes no other key and not the cursor.
C30_MarkSuccess ==
    flights.op = "markSuccess" =>
        /\ KeyAfter.successCount = KeyBefore.successCount + 1
        /\ KeyBefore.failureCount > 0 => KeyAfter.failureCount = 0 /\ KeyAfter.isHealthy
        /\ \A j \in 1..flights.before.n :
               j # flights.key => managers[PoolOf].states[j] = flights.before.states[j]
        /\ managers[PoolOf].currentIndex = flights.before.currentIndex
        /\ managers[PoolOf].n = flights.before.n

\* a key of a pool of two that became unhealthy while the request was in
\* flight is healthy after the success, and the other key has failed once
C30_Witness ==
    /\ flights.op = "markSuccess"
    /\ flights.before.n = 2
    /\ ~KeyBefore.isHealthy /\ KeyAfter.isHealthy
    /\ \E j \in 1..2 : j # flights.key /\ managers[PoolOf].states[j].failureCount = 1

(***************************************************************************)
(* C31-C33: the attempts of one call to the keyed provider ipqs (SpecKeys, *)
(* where ipguide is the only other provider and sends one request).        *)
(***************************************************************************)
Started(task) == task.st \in {"inflight", "fulfilled", "rejected"}

\* the outbound requests that call c has sent to the keyed provider
KeyedRequests(c) ==
    calls[c].requests - (IF Started(calls[c].tasks["ipguide"]) THEN 1 ELSE 0)

Fatal(msg) ==
    /\ msg.kind \in {"timeout", "http", "syntax_error", "type_error", "api_error"}
    /\ ~Retryable(msg)

\* C32: when the attempt in flight fails with an error that is neither
\* key-related nor HTTP 5xx, the call ends with that error, sends no further
\* request and leaves every key manager as it was; an attempt after the
\* first is only made after a failure that is key-related or HTTP 5xx.
C32_FatalEndsCall ==
    [][\A c \in CallIds :
          /\ (/\ KeyedTask(c).st = "inflight"
              /\ calls'[c].tasks[PoolOf].st = "fulfilled"
              /\ calls'[c].tasks[PoolOf].result.status = "error"
              /\ Fatal(calls'[c].tasks[PoolOf].result.error))
                 => /\ managers' = managers
                    /\ calls'[c].requests = calls[c].requests
          /\ (/\ calls'[c].tasks[PoolOf].st = "inflight"
              /\ calls'[c].tasks[PoolOf].attempt > 0)
                 => Retryable(calls'[c].tasks[PoolOf].lastError)]_vars

\* the second attempt of a call met HTTP 404 and the call ended
C32_Witness ==
    \E c \in CallIds :
        /\ KeyedTask(c).st = "fulfilled"
        /\ KeyedTask(c).attempt = 1
        /\ KeyedTask(c).result.error = Msg("http", 404, FALSE)

\* the attempt in flight of call c ends in this step with a success
AttemptSucceeds(c) ==
    /\ KeyedTask(c).st = "inflight"
    /\ calls'[c].tasks[PoolOf].st = "fulfilled"
    /\ calls'[c].tasks[PoolOf].result.status = "success"

\* the attempt in flight of call c ends in this step with a failure that is
\* key-related or HTTP 5xx: the next attempt begins, or the call gives up
AttemptFailsRetryably(c) ==
    /\ KeyedTask(c).st = "inflight"
    /\ \/ /\ calls'[c].tasks[PoolOf].st = "inflight"
          /\ calls'[c].tasks[PoolOf].attempt = KeyedTask(c).attempt + 1
       \/ /\ calls'[c].tasks[PoolOf].st = "fulfilled"
          /\ calls'[c].tasks[PoolOf].result.status = "error"
          /\ ~Fatal(calls'[c].tasks[PoolOf].result.error)

\* C33: a successful attempt adds 1 to the successCount of the key it used
\* and changes no other key; an attempt that fails with a key-related or
\* HTTP 5xx failure records one failure at the current time on the key it
\* used (its failureCount rises by at most 1) and none on another key; a
\* healthy key with failureCount 0 is healthy after one such failure.
C33_OneMark ==
    [][\A c \in CallIds :
          LET k == KeyedTask(c).key
              b == managers[PoolOf].states
              a == managers'[PoolOf].states
          IN  /\ AttemptSucceeds(c) =>
                     /\ a[k].successCount = b[k].successCount + 1
                     /\ \A j \in 1..Pool.n : j # k => a[j] = b[j]
              /\ AttemptFailsRetryably(c) =>
                     /\ a[k].failureCount >= 1
                     /\ a[k].failureCount <= b[k].failureCount + 1
                     /\ a[k].lastFailure = now
                     /\ a[k].successCount = b[k].successCount
                     /\ (b[k].isHealthy /\ b[k].failureCount = 0) => a[k].isHealthy
                     /\ \A j \in 1..Pool.n :
                            j # k => /\ a[j].failureCount <= b[j].failureCount
                                     /\ a[j].lastFailure = b[j].lastFailure
                                     /\ a[j].successCount = b[j].successCount]_vars

\* a call failed once with one key and then succeeded with another: the
\* first key is healthy with one failure, the second has one success
C33_Witness ==
    \E c \in CallIds :
        /\ KeyedTask(c).st = "fulfilled" /\ KeyedTask(c).result.status = "success"
        /\ KeyedTask(c).attempt = 1
        /\ Pool.states[KeyedTask(c).key].successCount = 1
        /\ \E j \in 1..Pool.n :
               /\ j # KeyedTask(c).key
               /\ Pool.states[j].failureCount = 1 /\ Pool.states[j].isHealthy
               /\ Pool.states[j].lastFailure = now

(***************************************************************************)
(* C34: isKeyRelatedError (SpecKeyError).                                  *)
(***************************************************************************)
\* the phrases as the claim lists them
ClaimedPhrases ==
    {<<"rate", Space, "limit">>, <<"quota">>,
     <<"limit", Space, "exceeded">>, <<"request", Space, "quota">>,
     <<"invalid", Space, "key">>, <<"invalid", Space, "api", Space, "key">>,
     <<"unauthorized">>, <<"too", Space, "many", Space, "requests">>,
     <<"daily", Space, "limit">>, <<"monthly", Space, "limit">>,
     <<"exceeded">>, <<"throttl">>}

\* C34 as stated: isKeyRelatedError(status, body) is true exactly if the
\* status is 401, 403 or 429, or the body or message holds, in whatever
\* case, one of the phrases rate limit, quota, limit exceeded, request
\* quota, invalid key, invalid api key, unauthorized, too many requests,
\* daily limit, monthly limit, exceeded, throttl.
C34_Original ==
    pure.op = "classified" =>
        (pure.result <=>
            \/ pure.status \in {401, 403, 429}
            \/ \E ph \in ClaimedPhrases : includes(responseStr(pure.response), ph))

(***************************************************************************)
(* C35-C36: the waves and the cache write of one aggregation (Spec).       *)
(***************************************************************************)
Pending(task) == task.st \in {"queued", "inflight"}

\* C35: while a task of the second wave has been started, every task of the
\* first wave has settled; while the bundle is being written or has been
\* written, no task of either wave is pending.
C35_WaveBarrier ==
    \A c \in CallIds :
        LET wave1 == Range(Wave1Apis(env))
            wave2 == Range(Wave2Apis(env))
        IN  /\ (\E p \in wave2 : calls[c].tasks[p].st # "none")
                   => \A q \in wave1 : calls[c].tasks[q].st \in {"fulfilled", "rejected"}
            /\ (calls[c].pc = "writing" \/ calls[c].put \in {"stored", "threw"})
                   => \A p \in wave1 \cup wave2 : ~Pending(calls[c].tasks[p])

\* the request of the second wave is in flight after a first wave in which
\* one provider failed
C35_Witness ==
    \E c \in CallIds :
        /\ calls[c].tasks["cloudflare_asn"].st = "inflight"
        /\ calls[c].tasks["ipqs"].result.status = "error"
        /\ calls[c].tasks["ipguide"].result.status = "success"

\* the entry of the address of call c
EntryOf(c) == kv[getMergedIpCacheKey(calls[c].ip)]

\* C36: a bundle is stored flagged negative exactly if its successful list
\* is empty; a negative bundle has errors, an empty merged map and a
\* lifetime of 60 s, any other the configured lifetime.  A call that missed
\* the cache writes, with a cache that takes the write, the results of its
\* providers if one succeeded, the negative bundle of its errors if none
\* succeeded and one failed, and nothing if no provider gave a result.
C36_WritePolicy ==
    /\ \A key \in CacheKeys :
           kv[key].present =>
               /\ kv[key].value.isNegativeCache <=> (kv[key].value.successful = <<>>)
               /\ kv[key].value.isNegativeCache =>
                      /\ kv[key].value.errors # <<>>
                      /\ kv[key].value.merged = EmptyObject
                      /\ kv[key].ttl = 60
               /\ ~kv[key].value.isNegativeCache => kv[key].ttl = getCacheTTL(env)
    /\ \A c \in CallIds :
           /\ calls[c].put = "stored" =>
                  /\ EntryOf(c).present
                  /\ EntryOf(c).value.successful = JsonResults(calls[c].result.successful)
                  /\ EntryOf(c).value.errors = JsonResults(calls[c].result.errors)
                  /\ calls[c].result.successful # <<>> =>
                         EntryOf(c).value.merged = JsonObject(calls[c].result.merged)
                  /\ calls[c].result.successful # <<>> \/ calls[c].result.errors # <<>>
           /\ calls[c].put = "nothing" =>
                  calls[c].result.successful = <<>> /\ calls[c].result.errors = <<>>
           /\ (/\ Missed(c) /\ calls[c].outcome = "returned" /\ env.kvBound
               /\ calls[c].result.successful # <<>> \/ calls[c].result.errors # <<>>)
                  => calls[c].put \in {"stored", "threw"}

\* the negative bundle of an aggregation whose two providers failed
C36_Witness ==
    \E c \in CallIds :
        /\ calls[c].put = "stored"
        /\ EntryOf(c).value.isNegativeCache
        /\ Len(EntryOf(c).value.errors) = 2
        /\ calls[c].result.merged = EmptyObject

(***************************************************************************)
(* C37: the keys of the successive attempts of one call (SpecKeys).        *)
(***************************************************************************)
\* C37 as stated: successive attempts of one call use distinct keys; the
\* key whose attempt has just failed is not handed to the call again.
C37_Original ==
    [][\A c \in CallIds :
          (AttemptFailsRetryably(c) /\ calls'[c].tasks[PoolOf].st = "inflight")
              => calls'[c].tasks[PoolOf].key # KeyedTask(c).key]_vars

(***************************************************************************)
(* C38: the states of a key pool (SpecFlights).                            *)
(***************************************************************************)
\* C38 as stated: in every reachable state of the pool an unhealthy key has
\* a failureCount of at least 2 and a lastFailure that is set, and the
\* cursor is an index of the pool.
C38_Original ==
    LET m == managers[PoolOf] IN
    /\ \A k \in 1..m.n :
          ~m.states[k].isHealthy
              => (m.states[k].failureCount >= UnhealthyThreshold
                  /\ m.states[k].lastFailure # FreshKeyState.lastFailure)
    /\ m.currentIndex \in 0..(m.n - 1)

(***************************************************************************)
(* C39: the limiter loses no task (SpecLimiter).                           *)
(***************************************************************************)
TasksIn(states) == {i \in TaskIds : pure.st[i] \in states}
Holding == {"running", "fulfilled", "rejected"}
Over == {"resolved", "thrown"}

\* the queue holds the waiting tasks, each once; the active count is the
\* number of tasks between their start and their finally block, never above
\* the concurrency; a task has been invoked once if it is past the queue and
\* never otherwise; nothing is active or queued once every task handed in
\* has settled
LimiterAccounts ==
    /\ Range(pure.queue) = TasksIn({"queued"})
    /\ Len(pure.queue) = Cardinality(TasksIn({"queued"}))
    /\ pure.activeCount = Cardinality(TasksIn(Holding))
    /\ pure.activeCount <= pure.concurrency
    /\ \A i \in TaskIds :
          pure.starts[i] = IF pure.st[i] \in Holding \cup Over THEN 1 ELSE 0
    /\ TasksIn({"queued"} \cup Holding) = {}
          => (pure.activeCount = 0 /\ pure.queue = <<>>)

\* C39: every task handed to the limiter is started exactly once, a waiting
\* task is eventually started when every started task eventually settles,
\* whatever the outcomes and their order, and once all tasks have settled
\* the active count is 0 and the queue is empty.
C39_NoTaskLost ==
    /\ []LimiterAccounts
    /\ \A i \in TaskIds : (pure.st[i] = "queued") ~> (pure.starts[i] = 1)

\* every task has settled, one that had waited behind a rejected one among
\* them, under the concurrency of the aggregator
C39_Witness ==
    /\ pure.concurrency = API_CONCURRENCY_LIMIT
    /\ TasksIn(Over) = TaskIds
    /\ pure.st[1] = "thrown" /\ pure.st[MaxTasks] = "resolved"
    /\ pure.waited[MaxTasks] /\ pure.starts[MaxTasks] = 1
    /\ pure.activeCount = 0 /\ pure.queue = <<>>

(***************************************************************************)
(* C40: the KV fallback of the rate limiter (SpecRate).                    *)
(***************************************************************************)
Decided == {r \in RequestIds : pure.reqs[r].pc = "done"}
Allowed == {r \in Decided : pure.reqs[r].result.allowed}
Refused == Decided \ Allowed
\* the requests allowed within the window that starts at time t
AllowedWithin(t) ==
    {r \in Allowed : /\ t <= pure.reqs[r].result.at
                     /\ pure.reqs[r].result.at < t + RateWindowSeconds * TicksPerSecond}

\* C40 as stated: whatever the interleaving, no window of the client key
\* holds more allowed requests than the limit; a refused request has left
\* the stored counter alone and names a retryAfter of 1..windowSeconds.
C40_Original ==
    /\ \A r \in Allowed :
          Cardinality(AllowedWithin(pure.reqs[r].result.window)) <= RateLimit
    /\ \A r \in Refused :
          /\ ~pure.reqs[r].result.put
          /\ pure.reqs[r].result.retryAfter \in 1..RateWindowSeconds

====
